---- MODULE Spec2Model ----
(***************************************************************************)
(* Delivery pipeline of ay-events-generator: the per-partition flush       *)
(* routine with its retry dispatcher, the asynchronous publisher and the   *)
(* per-partition batcher.  Each subsystem has its own specification over   *)
(* the shared variable tuple; a subsystem's actions leave the variables of *)
(* the other subsystems unchanged.                                         *)
(***************************************************************************)
EXTENDS Integers, Sequences, FiniteSets, TLC

(***************************************************************************)
(* Bounds of the model (not program constants).                            *)
(***************************************************************************)
\* longest batch handed to the flush routine
MaxBatch == 2
\* publisher: worker count W, FIFO capacity B, sender tasks, submissions
NWorkers == 2
BufferCap == 1
NSenders == 1
MaxSend == 3
\* publisher: number of Close calls, callback invocations the batchers'
\* flush closures make
MaxPubClose == 2
MaxAcks == 1
\* batcher: pusher tasks, Push calls, calls of the owning task
\* (SetMode, SetFlushSize, Close), largest flush size it sets
NPushers == 2
MaxPush == 3
MaxOps == 2
MaxFlushSize == 2
\* context merge: largest number of input contexts of a Merge call
MaxInputs == 2
\* partitioner: tasks calling WriteFn, WriteFn calls, Set...Mode calls that
\* store a configuration, Set...Mode calls that return an error, largest
\* partition count
NCallers == 2
MaxWrites == 3
MaxStores == 1
MaxRejects == 1
MaxCount == 2
\* consumer: longest buffer, calls of the owning task (SetMode,
\* SetBatchSize, SetTickerPeriod, Close)
MaxConsume == 3
MaxConsumerOps == 2
\* event generator: number of Close calls
MaxGenClose == 1
MaxMainEvents == 5
\* main: publisher workers (the code starts publisherWorkerCount = 8)
NMainWorkers == 2
MaxIn == 2
MaxDuration == 3

(***************************************************************************)
(* Program constants.                                                      *)
(***************************************************************************)
\* dispatcher.go:74, number of attempts K
backoffAttemptCount == 5
\* dispatcher.go:73, 1 * time.Second, in microseconds
startBackoffTimeout == 1000000

\* producer_batcher consts: bufferSize, the capacity the buffer is made with
bufferSize == 8192

\* producer_batcher consts of the slice-buffer batcher (the block that
\* defines bufferSize): defaultFlushSize, defaultMode = SizeMode
defaultFlushSize == 30
defaultMode == "size"
\* partitioner: defaultMode = roundRobinMode
defaultPartitionMode == "round_robin"
\* hash/fnv, used by hashToRange: offset32 = 2166136261 = 0x811C9DC5 as two
\* 16-bit halves, prime32 = 16777619
fnvOffsetHi == 33052
fnvOffsetLo == 40389
fnvPrime32 == 16777619
\* consumer consts (the block with minBatchSize = 1, which the tests of the
\* package need: they call SetBatchSize(2)): minBatchSize, maxBatchSize,
\* defaultBatchSize = minBatchSize, defaultPeriodTime = 5 * time.Second
minBatchSize == 1
maxBatchSize == 10000
defaultBatchSize == minBatchSize
defaultPeriodTime == 5

\* consumer: the capacity the DLQ channel is made with (its value is not in
\* the sources at hand)
dlqBufferSize == 1

\* generator mode.go: defaultMode = RegularMode, pickLoadMinEvents,
\* pickLoadMaxEvents
defaultGeneratorMode == "regular"
pickLoadMinEvents == 5
pickLoadMaxEvents == 50

\* generator.go: defaultDurationMax, bounceMax and the defect types
defaultDurationMax == 600
bounceMax == 5000
emptyPageIDDefect == 0
negativeDurationDefect == 1
invalidJSONDefect == 2

\* main: kafkaPartitionCount
kafkaPartitionCount == 5
\* main: publisherBufferAsyncMessageSize
publisherBufferAsyncMessageSize == 4096

VARIABLES
    \* ---- flush routine (cmd main, batcher flush function) ----
    f_batch,      \* the envelopes handed to the flush function
    f_cb,         \* per envelope: the errors its callback was invoked with
    f_records,    \* the records the last run of the closure handed to WriteMessages
    \* ---- dispatcher.writeWithBackoff ----
    d_pc,         \* "idle" | "loop" | "attempt" | "done"
    d_i,          \* index of the current loop iteration, 0..K
    d_hist,       \* results of the closure invocations so far
    d_timeout,    \* current per-attempt timeout (microseconds)
    d_ctxDone,    \* the parent (merged) context is cancelled
    d_result,     \* "none" | "nil" | "ErrBackoffTimeout" | "ctxErr"
    d_cancelAt,   \* index of the attempt that was running when the parent
                  \* context was cancelled, -1 if none was
    \* ---- publisher ----
    p_queue,      \* asyncMessagesCh: the queued message ids, oldest first
    p_closed,     \* the closed flag
    p_closeCh,    \* closeCh has been closed
    p_ctxDone,    \* the context given to NewPublisher is cancelled
    p_finished,   \* workersFinished has been closed
    p_wpc,        \* per worker: "select" | "write" | "exit"
    p_wmsg,       \* per worker: the message it dequeued (0: none)
    p_spc,        \* per sender: "idle" | "enqueue" | "syncwrite"
    p_smsg,       \* per sender: the message of its current call (0: none)
    p_msgs,       \* per submitted message: kind, callback, call state
    p_writes,     \* per message: the results of the invocations of the write
                  \* function on it
    p_cbW,        \* per message: the errors a worker invoked its callback with
    p_cbF,        \* per message: callback invocations made for write (flush closure)
    p_cpc,        \* the closing task: "idle" | "wait"
    p_closeRets,  \* results of the Close calls that returned, in order
    \* ---- batcher ----
    b_mode,       \* "size" | "time"
    b_flushSize,  \* flushSize
    b_buffer,     \* buffer: the envelope ids, in insertion order
    b_mutex,      \* holder of the buffer mutex, NoTask when free
    b_stopped,    \* the stopped flag
    b_stopCh,     \* stopCh has been closed
    b_wg,         \* the WaitGroup counter
    b_panic,      \* the process panicked (close of a closed channel)
    b_tpc,        \* per ticker task started: "select" | "tick" | "stop" |
                  \* "tickflush" | "stopflush" | "exit"
    b_tbatch,     \* per ticker task: its local variable messages, likewise
    b_ppc,        \* per pusher: "idle" | "lock" | "body" | "spawn"
    b_pmsg,       \* per pusher: the envelope of its current Push (0: none)
    b_pbatch,     \* per pusher: its local variable messages, with the
                  \* position of that flushBuffer call among those that
                  \* returned a batch to flush
    b_push,       \* per Push call: result, whether Close had returned before
                  \* and whether time mode held back a full buffer
    b_cpc,        \* owning task: "idle" | "close" | "mode" | "wait" | "locked" |
                  \* "flush" | "start"
    b_cop,        \* owning task: its current or last call
    b_cbatch,     \* owning task: the local variable messages of Close, likewise
    b_ops,        \* number of calls the owning task has made
    b_flushes,    \* the flushFn invocations: batch, the path that made it and
                  \* the position of the flushBuffer call that produced it
    b_closes,     \* number of Close calls of the owner that have returned
    b_chCloses,   \* number of close(stopCh) executions
    b_reconf,     \* the mode was changed, or the flush size after a Push
    b_ctxDone,    \* the messages whose submission context is cancelled
    \* ---- context_merge.Merge ----
    m_n,          \* number of input contexts of the Merge call (0: not called)
    m_inKind,     \* per input: "background" (nil Done channel) | "cancellable"
    m_inDone,     \* per input: the context is cancelled
    m_cancelled,  \* the returned cancel function has been invoked
    m_ctxDone,    \* the merged context is done
    m_result,     \* fanIn: the result channel has been closed
    m_once,       \* fanIn: the sync.Once has run
    m_chs,        \* fanIn: the channels handed to it, one watcher task each
    m_wpc,        \* per watcher task: "select" | "once" | "exit"
    m_gpc,        \* the task waiting on the fan-in result:
                  \* "none" | "wait" | "cancel" | "exit"
    \* ---- partitioner ----
    r_configs,    \* the Config records stored so far, in the order of their
                  \* creation, each with the cursor v of its RRCircle, the
                  \* indexes passed to the partition write function by the
                  \* calls that loaded it and the (message, index) pairs of
                  \* its key-mode choices; a record nothing refers to any
                  \* more is garbage (Dead)
    r_cur,        \* the record the atomic config value points to
    r_cpc,        \* per caller of WriteFn: "idle" | "loaded" | "indexed"
    r_ccfg,       \* per caller: the record its call loaded (0: none)
    r_cidx,       \* per caller: the index its call chose
    r_calls,      \* number of WriteFn calls begun
    r_overlap,    \* two WriteFn calls have been in progress at once
    r_nrej,       \* number of Set...Mode calls that returned an error
    r_ret,        \* result of the last Set...Mode call
    \* ---- consumer ----
    c_mode,       \* mode
    c_batchSize,  \* batchSize
    c_period,     \* tickerPeriod, in seconds
    c_buffer,     \* buffer: the messages, in the order of their receipt
    c_closed,     \* the closed flag
    c_closeCh,    \* the current closeCh has been closed
    c_ctxDone,    \* the context given to NewConsumer and SetMode is cancelled
    c_wg,         \* the closedWg counter
    c_run,        \* number of processing tasks started so far
    c_kind,       \* the process of the current processing task:
                  \* "batch" | "time" | "hybrid"
    c_ppc,        \* the processing task: "ticker" | "select" | "exit"
    c_left,       \* the ticker of the processing task: seconds until its
                  \* next tick, 0 when it has none or the ticker is stopped
    c_tper,       \* the period of that ticker
    c_tick,       \* a tick is waiting in ticker.C
    c_opc,        \* owning task: "idle" | "close" | "wait" | "start"
    c_oarg,       \* owning task: the mode argument of its SetMode call,
                  \* "none" in a Close call
    c_ops,        \* number of calls the owning task has made
    c_ret,        \* result of the last SetBatchSize call
    c_flush,      \* the last flushFn invocation: its trigger ("size" |
                  \* "tick") and the processing task that made it
    c_lastSize,   \* the last flush triggered by the batch size in hybrid
                  \* mode: seconds passed since (counted up to the period),
                  \* period given to ticker.Reset, processing task
    \* ---- event generator ----
    g_mode,       \* mode
    g_stopCh,     \* stopCh has been closed
    g_eventCh,    \* eventCh has been closed
    g_panic,      \* the process panicked (close of a closed channel)
    g_epc,        \* the emitter task: "none" | "select" | "send" | "exit"
    g_left,       \* emitter: events of the current tick still to be sent
    g_tick,       \* a tick is waiting in ticker.C
    g_after,      \* ticks the emitter has taken since Close (counted up to 2)
    g_cons,       \* the task reading the channel: "none" | "ranging" | "gone"
    g_closes,     \* number of Close calls
    \* ---- main: the wiring and its deferred calls ----
    w_pc,         \* main: "loop" | "pubClose" | "connClose" | "returned"
    w_sent,       \* events main has handed to SendAsync
    w_queue,      \* messages in the publisher FIFO
    w_rr,         \* the cursor of the partitioner's RRCircle
    w_buf,        \* per partition: envelopes in the buffer of its batcher
    w_wpc,        \* per publisher worker: "select" | "write" | "push" | "exit"
    w_wpart,      \* per publisher worker: the partition index WriteFn chose
    w_pubClosed,  \* pub.Close() has returned
    w_conn,       \* per partition: "open" | "closed"
    w_ci,         \* index of the deferred loop over the connections
    w_batClosed,  \* per partition: Close of its batcher has returned
    w_genClosed,  \* gen.Close() has returned
    \* ---- consumer: the input proxy started by In ----
    x_pc,         \* the proxy task: "none" | "select" | "send" | "exit"
    x_msg,        \* the message the proxy is sending on readCh ("": none)
    x_n,          \* messages the proxy has taken from the in channel
    x_dlq,        \* the DLQ channel: the queued (message, error) pairs
    x_dropped,    \* a rejected message was dropped because the DLQ was full
    \* ---- event generator: event() ----
    e_durationMax, \* durationMax
    e_event,      \* the last event returned by event() (NoEvent: none yet)
    e_panic       \* event() panicked in mrand.Intn

fvars == <<f_batch, f_cb, f_records>>
dvars == <<d_pc, d_i, d_hist, d_timeout, d_ctxDone, d_result, d_cancelAt>>
pvars == <<p_queue, p_closed, p_closeCh, p_ctxDone, p_finished, p_wpc, p_wmsg,
           p_spc, p_smsg, p_msgs, p_writes, p_cbW, p_cbF, p_cpc, p_closeRets>>

bvars == <<b_mode, b_flushSize, b_buffer, b_mutex, b_stopped, b_stopCh, b_wg,
           b_panic, b_tpc, b_tbatch, b_ppc, b_pmsg, b_pbatch, b_push, b_cpc, b_cop,
           b_cbatch, b_ops, b_flushes, b_closes, b_chCloses, b_reconf,
           b_ctxDone>>

mvars == <<m_n, m_inKind, m_inDone, m_cancelled, m_ctxDone, m_result, m_once,
           m_chs, m_wpc, m_gpc>>

rvars == <<r_configs, r_cur, r_cpc, r_ccfg, r_cidx, r_calls, r_overlap,
           r_nrej, r_ret>>

cvars == <<c_mode, c_batchSize, c_period, c_buffer, c_closed, c_closeCh,
           c_ctxDone, c_wg, c_run, c_kind, c_ppc, c_left, c_tper,
           c_tick, c_opc, c_oarg, c_ops, c_ret, c_flush, c_lastSize>>

gvars == <<g_mode, g_stopCh, g_eventCh, g_panic, g_epc, g_left, g_tick, g_after,
           g_cons, g_closes>>

wvars == <<w_pc, w_sent, w_queue, w_rr, w_buf, w_wpc, w_wpart, w_pubClosed, w_conn, w_ci,
           w_batClosed, w_genClosed>>

xvars == <<x_pc, x_msg, x_n, x_dlq, x_dropped>>

evars == <<e_durationMax, e_event, e_panic>>

vars == <<fvars, dvars, pvars, bvars, mvars, rvars, cvars, gvars, wvars, xvars,
          evars>>

(***************************************************************************)
(* Flush routine and dispatcher.                                           *)
(***************************************************************************)
\* an envelope of a batch: has it a callback, does its event serialize
Envelopes == [cb : BOOLEAN, ser : BOOLEAN]

Batches == UNION {[1..n -> Envelopes] : n \in 1..MaxBatch}


\* a backoff that adds a fifth of the start timeout instead of multiplying
GrowTimeout_add(t) == t + startBackoffTimeout \div 5

\* time.Duration(float64(timeout) * backoffMultiply), backoffMultiply = 1.2
GrowTimeout(t) == (t * 12) \div 10

\* number of times the write closure has been invoked
d_calls == Len(d_hist)


\* the zero value of kafka.Message, as make([]kafka.Message, n) creates it
ZeroRecord == 0

\* validMessages as the closure builds it: the envelopes that serialized, in
\* the order of the batch (an envelope is named by its index in the batch)
validMessages(messages) ==
    SelectSeq([i \in DOMAIN messages |-> i], LAMBDA i : messages[i].ser)

\* kafkaMessages as the closure builds it: a vector of len(messages) zero
\* records in which slot i is assigned the record of envelope i when the
\* envelope serializes, and left as it is otherwise
kafkaMessages(messages) ==
    [i \in DOMAIN messages |-> IF messages[i].ser THEN i ELSE ZeroRecord]

InitFlush ==
    /\ f_batch = <<>>
    /\ f_cb = <<>>
    /\ f_records = <<>>
    /\ d_pc = "idle"
    /\ d_i = 0
    /\ d_hist = <<>>
    /\ d_timeout = startBackoffTimeout
    /\ d_ctxDone = FALSE
    /\ d_result = "none"
    /\ d_cancelAt = -1

\* the flush function is called with a batch: the submission contexts are
\* merged and disp.Write is entered with the merged context
FlushBegin(batch) ==
    /\ d_pc = "idle"
    /\ f_batch' = batch
    /\ f_cb' = [i \in DOMAIN batch |-> <<>>]
    /\ d_pc' = "loop"
    /\ UNCHANGED <<f_records, d_i, d_hist, d_timeout, d_ctxDone, d_result, d_cancelAt, pvars, bvars, mvars, rvars, cvars, gvars, wvars, xvars, evars>>

\* a submission context of the batch is cancelled: the merged context is
\* done; the cancellation may fall between attempts or inside one
CtxCancel ==
    /\ d_pc # "done"
    /\ ~d_ctxDone
    /\ d_ctxDone' = TRUE
    /\ d_cancelAt' = IF d_pc = "attempt" THEN d_i ELSE -1
    /\ UNCHANGED <<f_batch, f_cb, f_records, d_pc, d_i, d_hist, d_timeout, d_result, pvars, bvars, mvars, rvars, cvars, gvars, wvars, xvars, evars>>

\* select: case <-ctx.Done(): return ctx.Err()
DispCancelled ==
    /\ d_pc = "loop"
    /\ d_i < backoffAttemptCount
    /\ d_ctxDone
    /\ d_pc' = "done"
    /\ d_result' = "ctxErr"
    /\ UNCHANGED <<f_batch, f_cb, f_records, d_i, d_hist, d_timeout, d_ctxDone, d_cancelAt, pvars, bvars, mvars, rvars, cvars, gvars, wvars, xvars, evars>>


\* a loop that starts the attempt without looking at the parent context
DispBeginAttempt_nocheck ==
    /\ d_pc = "loop"
    /\ d_i < backoffAttemptCount
    /\ d_pc' = "attempt"
    /\ UNCHANGED <<f_batch, f_cb, f_records, d_i, d_hist, d_timeout, d_ctxDone, d_result, d_cancelAt, pvars, bvars, mvars, rvars, cvars, gvars, wvars, xvars, evars>>

\* select: default: singleWrite starts the closure under a child context
DispBeginAttempt ==
    /\ d_pc = "loop"
    /\ d_i < backoffAttemptCount
    /\ ~d_ctxDone
    /\ d_pc' = "attempt"
    /\ UNCHANGED <<f_batch, f_cb, f_records, d_i, d_hist, d_timeout, d_ctxDone, d_result, d_cancelAt, pvars, bvars, mvars, rvars, cvars, gvars, wvars, xvars, evars>>

\* the callbacks one run of the flush closure makes: an envelope that does
\* not serialize gets the serialization error, the others the write result
ClosureCallbacks(writeErr) ==
    [i \in DOMAIN f_batch |->
        IF ~f_batch[i].cb THEN f_cb[i]
        ELSE IF ~f_batch[i].ser THEN Append(f_cb[i], "serErr")
        ELSE Append(f_cb[i], writeErr)]

\* the closure runs and the broker write fails: singleWrite returns the
\* error, the timeout grows and the loop continues
ClosureFail ==
    /\ d_pc = "attempt"
    /\ f_cb' = ClosureCallbacks("writeErr")
    /\ f_records' = kafkaMessages(f_batch)
    /\ d_hist' = Append(d_hist, "fail")
    /\ d_timeout' = GrowTimeout(d_timeout)
    /\ d_i' = d_i + 1
    /\ d_pc' = "loop"
    /\ UNCHANGED <<f_batch, d_ctxDone, d_result, d_cancelAt, pvars, bvars, mvars, rvars, cvars, gvars, wvars, xvars, evars>>

\* a retry loop that does not return after a successful attempt
ClosureOk_retry ==
    /\ d_pc = "attempt"
    /\ f_cb' = ClosureCallbacks("nil")
    /\ f_records' = kafkaMessages(f_batch)
    /\ d_hist' = Append(d_hist, "ok")
    /\ d_i' = d_i + 1
    /\ d_pc' = "loop"
    /\ UNCHANGED <<f_batch, d_timeout, d_ctxDone, d_result, d_cancelAt, pvars, bvars, mvars, rvars, cvars, gvars, wvars, xvars, evars>>

\* the closure runs and the broker write succeeds: writeWithBackoff returns nil
ClosureOk ==
    /\ d_pc = "attempt"
    /\ f_cb' = ClosureCallbacks("nil")
    /\ f_records' = kafkaMessages(f_batch)
    /\ d_hist' = Append(d_hist, "ok")
    /\ d_pc' = "done"
    /\ d_result' = "nil"
    /\ UNCHANGED <<f_batch, d_i, d_timeout, d_ctxDone, d_cancelAt, pvars, bvars, mvars, rvars, cvars, gvars, wvars, xvars, evars>>

\* an exhausted loop that returns the closure's last error
DispExhausted_lastErr ==
    /\ d_pc = "loop"
    /\ d_i = backoffAttemptCount
    /\ d_pc' = "done"
    /\ d_result' = "writeErr"
    /\ UNCHANGED <<f_batch, f_cb, f_records, d_i, d_hist, d_timeout, d_ctxDone, d_cancelAt, pvars, bvars, mvars, rvars, cvars, gvars, wvars, xvars, evars>>

\* the loop is over: return ErrBackoffTimeout
DispExhausted ==
    /\ d_pc = "loop"
    /\ d_i = backoffAttemptCount
    /\ d_pc' = "done"
    /\ d_result' = "ErrBackoffTimeout"
    /\ UNCHANGED <<f_batch, f_cb, f_records, d_i, d_hist, d_timeout, d_ctxDone, d_cancelAt, pvars, bvars, mvars, rvars, cvars, gvars, wvars, xvars, evars>>

NextFlush ==
    \/ \E batch \in Batches : FlushBegin(batch)
    \/ CtxCancel
    \/ DispCancelled
    \/ DispBeginAttempt
    \/ ClosureFail
    \/ ClosureOk
    \/ DispExhausted

(***************************************************************************)
(* Publisher.                                                              *)
(***************************************************************************)
Workers == 1..NWorkers
Senders == 1..NSenders

\* the ids of the messages submitted so far
PubMsgs == DOMAIN p_msgs

InitPub ==
    /\ p_queue = <<>>
    /\ p_closed = FALSE
    /\ p_closeCh = FALSE
    /\ p_ctxDone = FALSE
    /\ p_finished = FALSE
    /\ p_wpc = [w \in Workers |-> "select"]
    /\ p_wmsg = [w \in Workers |-> 0]
    /\ p_spc = [s \in Senders |-> "idle"]
    /\ p_smsg = [s \in Senders |-> 0]
    /\ p_msgs = <<>>
    /\ p_writes = <<>>
    /\ p_cbW = <<>>
    /\ p_cbF = <<>>
    /\ p_cpc = "idle"
    /\ p_closeRets = <<>>

\* a new submission record; afterClosed: the call began with the flag set
NewMsg(kind, cb, ret) ==
    [kind |-> kind, cb |-> cb, afterClosed |-> p_closed, ret |-> ret]

\* bookkeeping of a new call by sender s with message record m
Submit(m) ==
    /\ p_msgs' = Append(p_msgs, m)
    /\ p_writes' = Append(p_writes, <<>>)
    /\ p_cbW' = Append(p_cbW, <<>>)
    /\ p_cbF' = Append(p_cbF, 0)

\* one invocation of the caller-supplied write function on message m: it
\* returns nil or an error and makes no callback before it returns (main's
\* write hands the callback to the batcher with the envelope, the write
\* function of the tests ignores it)
WriteCall(m, ok) ==
    /\ p_writes' = [p_writes EXCEPT ![m] = Append(@, IF ok THEN "nil" ELSE "writeErr")]
    /\ UNCHANGED p_cbF

\* the number of callback invocations made for writes so far
RECURSIVE SumSeq(_)
SumSeq(s) == IF s = <<>> THEN 0 ELSE Head(s) + SumSeq(Tail(s))

\* a write that returned nil kept the callback it was given
CallbackKept(m) ==
    /\ p_msgs[m].cb
    /\ \E j \in DOMAIN p_writes[m] : p_writes[m][j] = "nil"

\* after a write that accepted message m with a non-nil callback, the
\* flush closure of the batcher that holds the envelope invokes the
\* callback, once per attempt of the dispatcher; a batch that is never
\* flushed, or a write function that ignores its callback, never does
WriteFnCallback(m) ==
    /\ CallbackKept(m)
    /\ SumSeq(p_cbF) < MaxAcks
    /\ p_cbF' = [p_cbF EXCEPT ![m] = @ + 1]
    /\ UNCHANGED <<p_queue, p_closed, p_closeCh, p_ctxDone, p_finished, p_wpc,
                   p_wmsg, p_spc, p_smsg, p_msgs, p_writes, p_cbW, p_cpc,
                   p_closeRets, fvars, dvars, bvars, mvars, rvars, cvars, gvars,
                   wvars, xvars, evars>>

\* SendAsync without the closed check
SendAsync_nocheck(s, cb) ==
    /\ p_spc[s] = "idle"
    /\ Len(p_msgs) < MaxSend
    /\ Submit(NewMsg("async", cb, "pending"))
    /\ p_spc' = [p_spc EXCEPT ![s] = "enqueue"]
    /\ p_smsg' = [p_smsg EXCEPT ![s] = Len(p_msgs) + 1]
    /\ UNCHANGED <<p_queue, p_closed, p_closeCh, p_ctxDone, p_finished, p_wpc,
                   p_wmsg, p_cpc, p_closeRets, fvars, dvars, bvars, mvars, rvars, cvars, gvars, wvars, xvars, evars>>

\* SendAsync, the closed check: ErrClosed, or go on to the channel send
SendAsync(s, cb) ==
    /\ p_spc[s] = "idle"
    /\ Len(p_msgs) < MaxSend
    /\ IF p_closed
       THEN /\ Submit(NewMsg("async", cb, "ErrClosed"))
            /\ UNCHANGED <<p_spc, p_smsg>>
       ELSE /\ Submit(NewMsg("async", cb, "pending"))
            /\ p_spc' = [p_spc EXCEPT ![s] = "enqueue"]
            /\ p_smsg' = [p_smsg EXCEPT ![s] = Len(p_msgs) + 1]
    /\ UNCHANGED <<p_queue, p_closed, p_closeCh, p_ctxDone, p_finished, p_wpc,
                   p_wmsg, p_cpc, p_closeRets, fvars, dvars, bvars, mvars, rvars, cvars, gvars, wvars, xvars, evars>>


\* a channel send that never waits for room in the FIFO
SendAsyncEnqueue_nowait(s) ==
    /\ p_spc[s] = "enqueue"
    /\ p_queue' = Append(p_queue, p_smsg[s])
    /\ p_msgs' = [p_msgs EXCEPT ![p_smsg[s]].ret = "nil"]
    /\ p_spc' = [p_spc EXCEPT ![s] = "idle"]
    /\ p_smsg' = [p_smsg EXCEPT ![s] = 0]
    /\ UNCHANGED <<p_closed, p_closeCh, p_ctxDone, p_finished, p_wpc, p_wmsg,
                   p_writes, p_cbW, p_cbF, p_cpc, p_closeRets, fvars, dvars, bvars, mvars, rvars, cvars, gvars, wvars, xvars, evars>>

\* SendAsync, the channel send: blocks while the FIFO is full, then returns nil
SendAsyncEnqueue(s) ==
    /\ p_spc[s] = "enqueue"
    /\ Len(p_queue) < BufferCap
    /\ p_queue' = Append(p_queue, p_smsg[s])
    /\ p_msgs' = [p_msgs EXCEPT ![p_smsg[s]].ret = "nil"]
    /\ p_spc' = [p_spc EXCEPT ![s] = "idle"]
    /\ p_smsg' = [p_smsg EXCEPT ![s] = 0]
    /\ UNCHANGED <<p_closed, p_closeCh, p_ctxDone, p_finished, p_wpc, p_wmsg,
                   p_writes, p_cbW, p_cbF, p_cpc, p_closeRets, fvars, dvars, bvars, mvars, rvars, cvars, gvars, wvars, xvars, evars>>

\* SendSync, the closed check: ErrClosed, or go on to the inline write
SendSync(s) ==
    /\ p_spc[s] = "idle"
    /\ Len(p_msgs) < MaxSend
    /\ IF p_closed
       THEN /\ Submit(NewMsg("sync", FALSE, "ErrClosed"))
            /\ UNCHANGED <<p_spc, p_smsg>>
       ELSE /\ Submit(NewMsg("sync", FALSE, "pending"))
            /\ p_spc' = [p_spc EXCEPT ![s] = "syncwrite"]
            /\ p_smsg' = [p_smsg EXCEPT ![s] = Len(p_msgs) + 1]
    /\ UNCHANGED <<p_queue, p_closed, p_closeCh, p_ctxDone, p_finished, p_wpc,
                   p_wmsg, p_cpc, p_closeRets, fvars, dvars, bvars, mvars, rvars, cvars, gvars, wvars, xvars, evars>>

\* SendSync, write(ctx, message, nil) on the caller's task; returns its error
SendSyncWrite(s, ok) ==
    /\ p_spc[s] = "syncwrite"
    /\ WriteCall(p_smsg[s], ok)
    /\ p_msgs' = [p_msgs EXCEPT ![p_smsg[s]].ret = IF ok THEN "nil" ELSE "writeErr"]
    /\ p_spc' = [p_spc EXCEPT ![s] = "idle"]
    /\ p_smsg' = [p_smsg EXCEPT ![s] = 0]
    /\ UNCHANGED <<p_queue, p_closed, p_closeCh, p_ctxDone, p_finished, p_wpc,
                   p_wmsg, p_cbW, p_cpc, p_closeRets, fvars, dvars, bvars, mvars, rvars, cvars, gvars, wvars, xvars, evars>>

\* worker select, case m := <-w.asyncMessagesCh
WorkerRecv(w) ==
    /\ p_wpc[w] = "select"
    /\ p_queue # <<>>
    /\ p_wmsg' = [p_wmsg EXCEPT ![w] = Head(p_queue)]
    /\ p_queue' = Tail(p_queue)
    /\ p_wpc' = [p_wpc EXCEPT ![w] = "write"]
    /\ UNCHANGED <<p_closed, p_closeCh, p_ctxDone, p_finished, p_spc, p_smsg,
                   p_msgs, p_writes, p_cbW, p_cbF, p_cpc, p_closeRets, fvars, dvars, bvars, mvars, rvars, cvars, gvars, wvars, xvars, evars>>

\* a worker that invokes the callback with the result of every write
WorkerWrite_always(w, ok) ==
    /\ p_wpc[w] = "write"
    /\ WriteCall(p_wmsg[w], ok)
    /\ p_cbW' = IF p_msgs[p_wmsg[w]].cb
                THEN [p_cbW EXCEPT ![p_wmsg[w]] = Append(@, IF ok THEN "nil" ELSE "writeErr")]
                ELSE p_cbW
    /\ p_wpc' = [p_wpc EXCEPT ![w] = "select"]
    /\ p_wmsg' = [p_wmsg EXCEPT ![w] = 0]
    /\ UNCHANGED <<p_queue, p_closed, p_closeCh, p_ctxDone, p_finished, p_spc,
                   p_smsg, p_msgs, p_cpc, p_closeRets, fvars, dvars, bvars, mvars, rvars, cvars, gvars, wvars, xvars, evars>>

\* worker: err = w.write(m.Ctx, m.Message, m.Callback); on an error with a
\* non-nil callback, m.Callback(ctx, m.Message, err)
WorkerWrite(w, ok) ==
    /\ p_wpc[w] = "write"
    /\ WriteCall(p_wmsg[w], ok)
    /\ p_cbW' = IF ~ok /\ p_msgs[p_wmsg[w]].cb
                THEN [p_cbW EXCEPT ![p_wmsg[w]] = Append(@, "writeErr")]
                ELSE p_cbW
    /\ p_wpc' = [p_wpc EXCEPT ![w] = "select"]
    /\ p_wmsg' = [p_wmsg EXCEPT ![w] = 0]
    /\ UNCHANGED <<p_queue, p_closed, p_closeCh, p_ctxDone, p_finished, p_spc,
                   p_smsg, p_msgs, p_cpc, p_closeRets, fvars, dvars, bvars, mvars, rvars, cvars, gvars, wvars, xvars, evars>>

\* worker select, case <-w.closeCh: return
WorkerExitClose(w) ==
    /\ p_wpc[w] = "select"
    /\ p_closeCh
    /\ p_wpc' = [p_wpc EXCEPT ![w] = "exit"]
    /\ UNCHANGED <<p_queue, p_closed, p_closeCh, p_ctxDone, p_finished, p_wmsg,
                   p_spc, p_smsg, p_msgs, p_writes, p_cbW, p_cbF, p_cpc,
                   p_closeRets, fvars, dvars, bvars, mvars, rvars, cvars, gvars, wvars, xvars, evars>>

\* worker select, case <-ctx.Done(): return
WorkerExitCtx(w) ==
    /\ p_wpc[w] = "select"
    /\ p_ctxDone
    /\ p_wpc' = [p_wpc EXCEPT ![w] = "exit"]
    /\ UNCHANGED <<p_queue, p_closed, p_closeCh, p_ctxDone, p_finished, p_wmsg,
                   p_spc, p_smsg, p_msgs, p_writes, p_cbW, p_cbF, p_cpc,
                   p_closeRets, fvars, dvars, bvars, mvars, rvars, cvars, gvars, wvars, xvars, evars>>

\* the task started by NewPublisher: wg.Wait(); close(s.workersFinished)
WorkersFinished ==
    /\ ~p_finished
    /\ \A w \in Workers : p_wpc[w] = "exit"
    /\ p_finished' = TRUE
    /\ UNCHANGED <<p_queue, p_closed, p_closeCh, p_ctxDone, p_wpc, p_wmsg, p_spc,
                   p_smsg, p_msgs, p_writes, p_cbW, p_cbF, p_cpc, p_closeRets,
                   fvars, dvars, bvars, mvars, rvars, cvars, gvars, wvars, xvars, evars>>

\* Close: closed.Swap(true); a set flag returns ErrClosed, else close(closeCh)
PubClose ==
    /\ p_cpc = "idle"
    /\ Len(p_closeRets) < MaxPubClose
    /\ IF p_closed
       THEN /\ p_closeRets' = Append(p_closeRets, "ErrClosed")
            /\ UNCHANGED <<p_closed, p_closeCh, p_cpc>>
       ELSE /\ p_closed' = TRUE
            /\ p_closeCh' = TRUE
            /\ p_cpc' = "wait"
            /\ UNCHANGED p_closeRets
    /\ UNCHANGED <<p_queue, p_ctxDone, p_finished, p_wpc, p_wmsg, p_spc, p_smsg,
                   p_msgs, p_writes, p_cbW, p_cbF, fvars, dvars, bvars, mvars, rvars, cvars, gvars, wvars, xvars, evars>>

\* Close: <-w.workersFinished; return nil
PubCloseReturn ==
    /\ p_cpc = "wait"
    /\ p_finished
    /\ p_cpc' = "idle"
    /\ p_closeRets' = Append(p_closeRets, "nil")
    /\ UNCHANGED <<p_queue, p_closed, p_closeCh, p_ctxDone, p_finished, p_wpc,
                   p_wmsg, p_spc, p_smsg, p_msgs, p_writes, p_cbW, p_cbF, fvars,
                   dvars, bvars, mvars, rvars, cvars, gvars, wvars, xvars, evars>>

\* the owner of the context given to NewPublisher cancels it
PubCtxCancel ==
    /\ ~p_ctxDone
    /\ p_ctxDone' = TRUE
    /\ UNCHANGED <<p_queue, p_closed, p_closeCh, p_finished, p_wpc, p_wmsg, p_spc,
                   p_smsg, p_msgs, p_writes, p_cbW, p_cbF, p_cpc, p_closeRets,
                   fvars, dvars, bvars, mvars, rvars, cvars, gvars, wvars, xvars, evars>>

NextPub ==
    \/ \E s \in Senders, cb \in BOOLEAN : SendAsync(s, cb)
    \/ \E s \in Senders : SendAsyncEnqueue(s)
    \/ \E s \in Senders : SendSync(s)
    \/ \E s \in Senders, ok \in BOOLEAN : SendSyncWrite(s, ok)
    \/ \E w \in Workers : WorkerRecv(w)
    \/ \E w \in Workers, ok \in BOOLEAN : WorkerWrite(w, ok)
    \/ \E m \in PubMsgs : WriteFnCallback(m)
    \/ \E w \in Workers : WorkerExitClose(w)
    \/ \E w \in Workers : WorkerExitCtx(w)
    \/ WorkersFinished
    \/ PubClose
    \/ PubCloseReturn
    \/ PubCtxCancel

(***************************************************************************)
(* Batcher.                                                                *)
(***************************************************************************)
Pushers == 1..NPushers
FlushSizes == {1, MaxFlushSize}
Modes == {"size", "time"}

NoTask == <<"none", 0>>
OwnerTask == <<"owner", 0>>
PushTask(p) == <<"push", p>>
TickTask(t) == <<"tick", t>>

\* flushBuffer that forgets b.buffer = b.buffer[:0]
flushBuffer_keep(buf) == [messages |-> buf, buffer |-> buf]


\* a flushBuffer that leaves out the envelopes whose context is cancelled
flushBuffer_live(buf) ==
    [messages |-> SelectSeq(buf, LAMBDA i : i \notin b_ctxDone), buffer |-> <<>>]

\* flushBuffer: the copy handed out and the buffer left behind
flushBuffer(buf) == [messages |-> buf, buffer |-> <<>>]

\* an empty local variable messages
NoBatch == [batch |-> <<>>, seq |-> 0]

\* the state NewBatcher returns: start() has run in the default mode
InitBat ==
    /\ b_mode = defaultMode
    /\ b_flushSize = defaultFlushSize
    /\ b_buffer = <<>>
    /\ b_mutex = NoTask
    /\ b_stopped = FALSE
    /\ b_stopCh = FALSE
    /\ b_wg = 0
    /\ b_panic = FALSE
    /\ b_tpc = <<>>
    /\ b_tbatch = <<>>
    /\ b_ppc = [p \in Pushers |-> "idle"]
    /\ b_pmsg = [p \in Pushers |-> 0]
    /\ b_pbatch = [p \in Pushers |-> NoBatch]
    /\ b_push = <<>>
    /\ b_cpc = "idle"
    /\ b_cop = "none"
    /\ b_cbatch = NoBatch
    /\ b_ops = 0
    /\ b_flushes = <<>>
    /\ b_closes = 0
    /\ b_chCloses = 0
    /\ b_reconf = FALSE
    /\ b_ctxDone = {}

\* the batches taken from the buffer and not yet handed to flushFn
PendingBatches ==
    Cardinality({p \in Pushers : b_ppc[p] = "spawn"})
        + Cardinality({t \in DOMAIN b_tpc : Len(b_tbatch[t].batch) > 0})
        + (IF b_cpc = "flush" THEN 1 ELSE 0)

\* the position of the next flushBuffer call that returns a batch to flush
NextTake == Len(b_flushes) + PendingBatches + 1

\* a flushFn invocation, go b.flushFn(messages) or b.flushFn(messages)
FlushCall(messages, by, seq) ==
    Append(b_flushes, [batch |-> messages, by |-> by, seq |-> seq])

\* Push: if b.stopped.Load() { return ErrBatchStopped }
\* (the calling goroutines are interchangeable: a new call is made by the
\* first one that is not inside a Push)
PushCheck(p) ==
    /\ ~b_panic
    /\ b_ppc[p] = "idle"
    /\ \A q \in Pushers : q < p => b_ppc[q] # "idle"
    /\ Len(b_push) < MaxPush
    /\ IF b_stopped
       THEN /\ b_push' = Append(b_push, [ret |-> "ErrBatchStopped", afterClose |-> b_closes > 0,
                                        held |-> FALSE])
            /\ UNCHANGED <<b_ppc, b_pmsg>>
       ELSE /\ b_push' = Append(b_push, [ret |-> "pending", afterClose |-> b_closes > 0,
                                        held |-> FALSE])
            /\ b_ppc' = [b_ppc EXCEPT ![p] = "lock"]
            /\ b_pmsg' = [b_pmsg EXCEPT ![p] = Len(b_push) + 1]
    /\ UNCHANGED <<b_mode, b_flushSize, b_buffer, b_mutex, b_stopped, b_stopCh,
                   b_wg, b_panic, b_tpc, b_tbatch, b_pbatch, b_cpc, b_cop, b_cbatch, b_ops,
                   b_flushes, b_closes, b_chCloses, b_reconf, b_ctxDone, fvars, dvars, pvars, mvars, rvars, cvars, gvars, wvars, xvars, evars>>

\* Push: b.mutex.Lock()
PushLock(p) ==
    /\ ~b_panic
    /\ b_ppc[p] = "lock"
    /\ b_mutex = NoTask
    /\ b_mutex' = PushTask(p)
    /\ b_ppc' = [b_ppc EXCEPT ![p] = "body"]
    /\ UNCHANGED <<b_mode, b_flushSize, b_buffer, b_stopped, b_stopCh, b_wg,
                   b_panic, b_tpc, b_tbatch, b_pmsg, b_pbatch, b_push, b_cpc, b_cop,
                   b_cbatch, b_ops, b_flushes, b_closes, b_chCloses, b_reconf,
                   b_ctxDone, fvars, dvars, pvars, mvars, rvars, cvars, gvars, wvars, xvars, evars>>

\* history: the Push found flushSize or more messages in the buffer and left
\* them there because the batcher is in time mode
HeldBack(buf) == b_mode = "time" /\ Len(buf) >= b_flushSize

\* a Push that takes the buffer at flushSize in every mode
PushBody_anymode(p) ==
    /\ ~b_panic
    /\ b_ppc[p] = "body"
    /\ b_mutex = PushTask(p)
    /\ LET buf == Append(b_buffer, b_pmsg[p])
           flushed == Len(buf) >= b_flushSize
       IN IF flushed
          THEN /\ b_buffer' = flushBuffer(buf).buffer
               /\ b_pbatch' = [b_pbatch EXCEPT ![p] =
                                 [batch |-> flushBuffer(buf).messages, seq |-> NextTake]]
               /\ b_ppc' = [b_ppc EXCEPT ![p] = "spawn"]
               /\ UNCHANGED <<b_pmsg, b_push>>
          ELSE /\ b_buffer' = buf
               /\ b_ppc' = [b_ppc EXCEPT ![p] = "idle"]
               /\ b_pmsg' = [b_pmsg EXCEPT ![p] = 0]
               /\ b_push' = [b_push EXCEPT ![b_pmsg[p]].ret = "nil",
                                           ![b_pmsg[p]].held = HeldBack(buf)]
               /\ UNCHANGED b_pbatch
    /\ b_mutex' = NoTask
    /\ UNCHANGED <<b_mode, b_flushSize, b_stopped, b_stopCh, b_wg, b_panic, b_tpc,
                   b_tbatch, b_cpc, b_cop, b_cbatch, b_ops, b_flushes, b_closes, b_chCloses,
                   b_reconf, b_ctxDone, fvars, dvars, pvars, mvars, rvars, cvars, gvars, wvars, xvars, evars>>

\* Push: append; in size mode with len(buffer) >= flushSize take the buffer;
\* b.mutex.Unlock(); without a flush, return nil
PushBody(p) ==
    /\ ~b_panic
    /\ b_ppc[p] = "body"
    /\ b_mutex = PushTask(p)
    /\ LET buf == Append(b_buffer, b_pmsg[p])
           flushed == b_mode = "size" /\ Len(buf) >= b_flushSize
       IN IF flushed
          THEN /\ b_buffer' = flushBuffer(buf).buffer
               /\ b_pbatch' = [b_pbatch EXCEPT ![p] =
                                 [batch |-> flushBuffer(buf).messages, seq |-> NextTake]]
               /\ b_ppc' = [b_ppc EXCEPT ![p] = "spawn"]
               /\ UNCHANGED <<b_pmsg, b_push>>
          ELSE /\ b_buffer' = buf
               /\ b_ppc' = [b_ppc EXCEPT ![p] = "idle"]
               /\ b_pmsg' = [b_pmsg EXCEPT ![p] = 0]
               /\ b_push' = [b_push EXCEPT ![b_pmsg[p]].ret = "nil",
                                           ![b_pmsg[p]].held = HeldBack(buf)]
               /\ UNCHANGED b_pbatch
    /\ b_mutex' = NoTask
    /\ UNCHANGED <<b_mode, b_flushSize, b_stopped, b_stopCh, b_wg, b_panic, b_tpc,
                   b_tbatch, b_cpc, b_cop, b_cbatch, b_ops, b_flushes, b_closes, b_chCloses,
                   b_reconf, b_ctxDone, fvars, dvars, pvars, mvars, rvars, cvars, gvars, wvars, xvars, evars>>

\* Push: if flushed { go b.flushFn(messages) }; return nil
PushSpawn(p) ==
    /\ ~b_panic
    /\ b_ppc[p] = "spawn"
    /\ b_flushes' = FlushCall(b_pbatch[p].batch, "push", b_pbatch[p].seq)
    /\ b_ppc' = [b_ppc EXCEPT ![p] = "idle"]
    /\ b_pmsg' = [b_pmsg EXCEPT ![p] = 0]
    /\ b_pbatch' = [b_pbatch EXCEPT ![p] = NoBatch]
    /\ b_push' = [b_push EXCEPT ![b_pmsg[p]].ret = "nil"]
    /\ UNCHANGED <<b_mode, b_flushSize, b_buffer, b_mutex, b_stopped, b_stopCh,
                   b_wg, b_panic, b_tpc, b_tbatch, b_cpc, b_cop, b_cbatch, b_ops, b_closes,
                   b_chCloses, b_reconf, b_ctxDone, fvars, dvars, pvars, mvars, rvars, cvars, gvars, wvars, xvars, evars>>

\* timeModeProcess, case <-ticker.C: b.mutex.Lock()
TickerTick(t) ==
    /\ ~b_panic
    /\ b_tpc[t] = "select"
    /\ b_mutex = NoTask
    /\ b_mutex' = TickTask(t)
    /\ b_tpc' = [b_tpc EXCEPT ![t] = "tick"]
    /\ UNCHANGED <<b_tbatch, b_mode, b_flushSize, b_buffer, b_stopped, b_stopCh, b_wg,
                   b_panic, b_ppc, b_pmsg, b_pbatch, b_push, b_cpc, b_cop,
                   b_cbatch, b_ops, b_flushes, b_closes, b_chCloses, b_reconf,
                   b_ctxDone, fvars, dvars, pvars, mvars, rvars, cvars, gvars, wvars, xvars, evars>>

\* timeModeProcess, case <-b.stopCh: b.mutex.Lock()
TickerStop(t) ==
    /\ ~b_panic
    /\ b_tpc[t] = "select"
    /\ b_stopCh
    /\ b_mutex = NoTask
    /\ b_mutex' = TickTask(t)
    /\ b_tpc' = [b_tpc EXCEPT ![t] = "stop"]
    /\ UNCHANGED <<b_tbatch, b_mode, b_flushSize, b_buffer, b_stopped, b_stopCh, b_wg,
                   b_panic, b_ppc, b_pmsg, b_pbatch, b_push, b_cpc, b_cop,
                   b_cbatch, b_ops, b_flushes, b_closes, b_chCloses, b_reconf,
                   b_ctxDone, fvars, dvars, pvars, mvars, rvars, cvars, gvars, wvars, xvars, evars>>

\* a ticker task that does not unlock the mutex before it starts the flush
TickerTake_locked(t) ==
    /\ ~b_panic
    /\ b_tpc[t] \in {"tick", "stop"}
    /\ b_mutex = TickTask(t)
    /\ b_buffer' = flushBuffer(b_buffer).buffer
    /\ b_mutex' = b_mutex
    /\ b_tbatch' = [b_tbatch EXCEPT ![t] =
                      [batch |-> flushBuffer(b_buffer).messages,
                       seq |-> IF Len(flushBuffer(b_buffer).messages) > 0
                               THEN NextTake ELSE 0]]
    /\ b_tpc' = [b_tpc EXCEPT ![t] =
                   IF b_tpc[t] = "stop" THEN "stopflush"
                   ELSE IF Len(b_buffer) > 0 THEN "tickflush" ELSE "select"]
    /\ UNCHANGED <<b_mode, b_flushSize, b_stopped, b_stopCh, b_wg, b_panic, b_ppc,
                   b_pmsg, b_pbatch, b_push, b_cpc, b_cop, b_cbatch, b_ops,
                   b_flushes, b_closes, b_chCloses, b_reconf, b_ctxDone, fvars, dvars,
                   pvars, mvars, rvars, cvars, gvars, wvars, xvars, evars>>

\* timeModeProcess, either case: messages := b.flushBuffer(); b.mutex.Unlock()
\* (in the tick case an empty messages fails 'len(messages) > 0' and the loop
\* is back at its select)
TickerTake(t) ==
    /\ ~b_panic
    /\ b_tpc[t] \in {"tick", "stop"}
    /\ b_mutex = TickTask(t)
    /\ b_buffer' = flushBuffer(b_buffer).buffer
    /\ b_mutex' = NoTask
    /\ b_tbatch' = [b_tbatch EXCEPT ![t] =
                      [batch |-> flushBuffer(b_buffer).messages,
                       seq |-> IF Len(flushBuffer(b_buffer).messages) > 0
                               THEN NextTake ELSE 0]]
    /\ b_tpc' = [b_tpc EXCEPT ![t] =
                   IF b_tpc[t] = "stop" THEN "stopflush"
                   ELSE IF Len(b_buffer) > 0 THEN "tickflush" ELSE "select"]
    /\ UNCHANGED <<b_mode, b_flushSize, b_stopped, b_stopCh, b_wg, b_panic, b_ppc,
                   b_pmsg, b_pbatch, b_push, b_cpc, b_cop, b_cbatch, b_ops,
                   b_flushes, b_closes, b_chCloses, b_reconf, b_ctxDone, fvars, dvars,
                   pvars, mvars, rvars, cvars, gvars, wvars, xvars, evars>>

\* timeModeProcess, either case: go b.flushFn(messages) for a non-empty
\* batch; the tick case goes back to the select, the stop case returns
\* (the deferred ticker.Stop() and wg.Done())
TickerFlush(t) ==
    /\ ~b_panic
    /\ b_tpc[t] \in {"tickflush", "stopflush"}
    /\ b_flushes' = IF Len(b_tbatch[t].batch) > 0
                    THEN FlushCall(b_tbatch[t].batch,
                                   IF b_tpc[t] = "tickflush" THEN "tick" ELSE "stop",
                                   b_tbatch[t].seq)
                    ELSE b_flushes
    /\ b_tbatch' = [b_tbatch EXCEPT ![t] = NoBatch]
    /\ b_tpc' = [b_tpc EXCEPT ![t] = IF b_tpc[t] = "tickflush" THEN "select" ELSE "exit"]
    /\ b_wg' = IF b_tpc[t] = "stopflush" THEN b_wg - 1 ELSE b_wg
    /\ UNCHANGED <<b_mode, b_flushSize, b_buffer, b_mutex, b_stopped, b_stopCh,
                   b_panic, b_ppc, b_pmsg, b_pbatch, b_push, b_cpc, b_cop, b_cbatch,
                   b_ops, b_closes, b_chCloses, b_reconf, b_ctxDone, fvars, dvars,
                   pvars, mvars, rvars, cvars, gvars, wvars, xvars, evars>>

\* SetFlushSize(size)
SetFlushSize(n) ==
    /\ ~b_panic
    /\ b_cpc = "idle"
    /\ b_ops < MaxOps
    /\ b_ops' = b_ops + 1
    /\ b_cop' = "SetFlushSize"
    /\ b_flushSize' = n
    /\ b_reconf' = (b_reconf \/ (n # b_flushSize /\ Len(b_push) > 0))
    /\ UNCHANGED <<b_mode, b_buffer, b_mutex, b_stopped, b_stopCh, b_wg, b_panic,
                   b_tpc, b_tbatch, b_ppc, b_pmsg, b_pbatch, b_push, b_cpc, b_cbatch,
                   b_flushes, b_closes, b_chCloses, b_ctxDone, fvars, dvars, pvars, mvars, rvars, cvars, gvars, wvars, xvars, evars>>

\* SetMode(mode): the same mode returns; else b.mode = mode and restart()
\* enters Close
SetMode(m) ==
    /\ ~b_panic
    /\ b_cpc = "idle"
    /\ b_ops < MaxOps
    /\ b_ops' = b_ops + 1
    /\ b_cop' = "SetMode"
    /\ IF b_mode = m
       THEN UNCHANGED <<b_mode, b_cpc, b_reconf>>
       ELSE /\ b_mode' = m
            /\ b_cpc' = "close"
            /\ b_reconf' = TRUE
    /\ UNCHANGED <<b_flushSize, b_buffer, b_mutex, b_stopped, b_stopCh, b_wg,
                   b_panic, b_tpc, b_tbatch, b_ppc, b_pmsg, b_pbatch, b_push, b_cbatch,
                   b_flushes, b_closes, b_chCloses, b_ctxDone, fvars, dvars, pvars, mvars, rvars, cvars, gvars, wvars, xvars, evars>>

\* the owning task calls Close
CloseCall ==
    /\ ~b_panic
    /\ b_cpc = "idle"
    /\ b_ops < MaxOps
    /\ b_ops' = b_ops + 1
    /\ b_cop' = "Close"
    /\ b_cpc' = "close"
    /\ UNCHANGED <<b_mode, b_flushSize, b_buffer, b_mutex, b_stopped, b_stopCh,
                   b_wg, b_panic, b_tpc, b_tbatch, b_ppc, b_pmsg, b_pbatch, b_push,
                   b_cbatch, b_flushes, b_closes, b_chCloses, b_reconf, b_ctxDone, fvars,
                   dvars, pvars, mvars, rvars, cvars, gvars, wvars, xvars, evars>>

\* where Close returns to: restart() goes on to start(), a call by the owner
\* is over
CloseReturnPc == IF b_cop = "SetMode" THEN "start" ELSE "idle"
CloseReturnCloses == IF b_cop = "SetMode" THEN b_closes ELSE b_closes + 1

\* Close: if b.stopped.Swap(true) { return }
CloseSwap ==
    /\ ~b_panic
    /\ b_cpc = "close"
    /\ IF b_stopped
       THEN /\ b_cpc' = CloseReturnPc
            /\ b_closes' = CloseReturnCloses
            /\ UNCHANGED b_stopped
       ELSE /\ b_stopped' = TRUE
            /\ b_cpc' = "mode"
            /\ UNCHANGED b_closes
    /\ UNCHANGED <<b_mode, b_flushSize, b_buffer, b_mutex, b_stopCh, b_wg, b_panic,
                   b_tpc, b_tbatch, b_ppc, b_pmsg, b_pbatch, b_push, b_cop, b_cbatch, b_ops,
                   b_flushes, b_chCloses, b_reconf, b_ctxDone, fvars, dvars, pvars, mvars, rvars, cvars, gvars, wvars, xvars, evars>>

\* Close in time mode: close(b.stopCh), which panics on a closed channel
CloseTime ==
    /\ ~b_panic
    /\ b_cpc = "mode"
    /\ b_mode = "time"
    /\ b_chCloses' = b_chCloses + 1
    /\ IF b_stopCh
       THEN /\ b_panic' = TRUE
            /\ UNCHANGED <<b_stopCh, b_cpc>>
       ELSE /\ b_stopCh' = TRUE
            /\ b_cpc' = "wait"
            /\ UNCHANGED b_panic
    /\ UNCHANGED <<b_mode, b_flushSize, b_buffer, b_mutex, b_stopped, b_wg, b_tpc,
                   b_tbatch, b_ppc, b_pmsg, b_pbatch, b_push, b_cop, b_cbatch, b_ops,
                   b_flushes, b_closes, b_reconf, b_ctxDone, fvars, dvars, pvars, mvars, rvars, cvars, gvars, wvars, xvars, evars>>

\* Close in time mode: b.wg.Wait(), then return
CloseWait ==
    /\ ~b_panic
    /\ b_cpc = "wait"
    /\ b_wg = 0
    /\ b_cpc' = CloseReturnPc
    /\ b_closes' = CloseReturnCloses
    /\ UNCHANGED <<b_mode, b_flushSize, b_buffer, b_mutex, b_stopped, b_stopCh,
                   b_wg, b_panic, b_tpc, b_tbatch, b_ppc, b_pmsg, b_pbatch, b_push, b_cop,
                   b_cbatch, b_ops, b_flushes, b_chCloses, b_reconf, b_ctxDone, fvars, dvars,
                   pvars, mvars, rvars, cvars, gvars, wvars, xvars, evars>>

\* Close in size mode: b.mutex.Lock()
CloseSizeLock ==
    /\ ~b_panic
    /\ b_cpc = "mode"
    /\ b_mode = "size"
    /\ b_mutex = NoTask
    /\ b_mutex' = OwnerTask
    /\ b_cpc' = "locked"
    /\ UNCHANGED <<b_mode, b_flushSize, b_buffer, b_stopped, b_stopCh, b_wg,
                   b_panic, b_tpc, b_tbatch, b_ppc, b_pmsg, b_pbatch, b_push, b_cop,
                   b_cbatch, b_ops, b_flushes, b_closes, b_chCloses, b_reconf,
                   b_ctxDone, fvars, dvars, pvars, mvars, rvars, cvars, gvars, wvars, xvars, evars>>

\* Close in size mode: messages := b.flushBuffer(); b.mutex.Unlock(); an
\* empty batch returns
CloseSizeTake ==
    /\ ~b_panic
    /\ b_cpc = "locked"
    /\ b_mutex = OwnerTask
    /\ b_buffer' = flushBuffer(b_buffer).buffer
    /\ b_mutex' = NoTask
    /\ IF Len(flushBuffer(b_buffer).messages) > 0
       THEN /\ b_cbatch' = [batch |-> flushBuffer(b_buffer).messages, seq |-> NextTake]
            /\ b_cpc' = "flush"
            /\ UNCHANGED b_closes
       ELSE /\ b_cpc' = CloseReturnPc
            /\ b_closes' = CloseReturnCloses
            /\ UNCHANGED b_cbatch
    /\ UNCHANGED <<b_mode, b_flushSize, b_stopped, b_stopCh, b_wg, b_panic, b_tpc,
                   b_tbatch, b_ppc, b_pmsg, b_pbatch, b_push, b_cop, b_ops, b_flushes,
                   b_chCloses, b_reconf, b_ctxDone, fvars, dvars, pvars, mvars, rvars, cvars, gvars, wvars, xvars, evars>>

\* Close in size mode: b.flushFn(messages), then return
CloseSizeFlush ==
    /\ ~b_panic
    /\ b_cpc = "flush"
    /\ b_flushes' = FlushCall(b_cbatch.batch, "close", b_cbatch.seq)
    /\ b_cbatch' = NoBatch
    /\ b_cpc' = CloseReturnPc
    /\ b_closes' = CloseReturnCloses
    /\ UNCHANGED <<b_mode, b_flushSize, b_buffer, b_mutex, b_stopped, b_stopCh,
                   b_wg, b_panic, b_tpc, b_tbatch, b_ppc, b_pmsg, b_pbatch, b_push, b_cop,
                   b_ops, b_chCloses, b_reconf, b_ctxDone, fvars, dvars, pvars, mvars, rvars, cvars, gvars, wvars, xvars, evars>>

\* start(), the second half of restart(): b.stopped.Swap(false); in time
\* mode wg.Add(1) and go b.timeModeProcess()
Start ==
    /\ ~b_panic
    /\ b_cpc = "start"
    /\ b_stopped' = FALSE
    /\ b_cpc' = "idle"
    /\ IF b_mode = "time"
       THEN /\ b_wg' = b_wg + 1
            /\ b_tpc' = Append(b_tpc, "select")
            /\ b_tbatch' = Append(b_tbatch, NoBatch)
       ELSE UNCHANGED <<b_wg, b_tpc, b_tbatch>>
    /\ UNCHANGED <<b_mode, b_flushSize, b_buffer, b_mutex, b_stopCh, b_panic,
                   b_ppc, b_pmsg, b_pbatch, b_push, b_cop, b_cbatch, b_ops,
                   b_flushes, b_closes, b_chCloses, b_reconf, b_ctxDone, fvars, dvars, pvars, mvars, rvars, cvars, gvars, wvars, xvars, evars>>


\* the caller of Push cancels the context it passed with message i: the
\* batcher stores the context in the envelope and never reads it
BatCtxCancel(i) ==
    /\ i \in DOMAIN b_push
    /\ b_push[i].ret # "ErrBatchStopped"
    /\ i \notin b_ctxDone
    /\ b_ctxDone' = b_ctxDone \cup {i}
    /\ UNCHANGED <<b_mode, b_flushSize, b_buffer, b_mutex, b_stopped, b_stopCh, b_wg,
                   b_panic, b_tpc, b_tbatch, b_ppc, b_pmsg, b_pbatch, b_push, b_cpc, b_cop,
                   b_cbatch, b_ops, b_flushes, b_closes, b_chCloses, b_reconf,
                   fvars, dvars, pvars, mvars, rvars, cvars, gvars, wvars, xvars, evars>>

\* a panic ends the process: no task takes another step (every action is
\* guarded by ~b_panic)
NextBat ==
    \/ \E p \in Pushers : PushCheck(p)
    \/ \E p \in Pushers : PushLock(p)
    \/ \E p \in Pushers : PushBody(p)
    \/ \E p \in Pushers : PushSpawn(p)
    \/ \E t \in DOMAIN b_tpc : TickerTick(t)
    \/ \E t \in DOMAIN b_tpc : TickerStop(t)
    \/ \E t \in DOMAIN b_tpc : TickerTake(t)
    \/ \E t \in DOMAIN b_tpc : TickerFlush(t)
    \/ \E n \in FlushSizes : SetFlushSize(n)
    \/ \E m \in Modes : SetMode(m)
    \/ CloseCall
    \/ CloseSwap
    \/ CloseTime
    \/ CloseWait
    \/ CloseSizeLock
    \/ CloseSizeTake
    \/ CloseSizeFlush
    \/ Start

(***************************************************************************)
(* context_merge: Merge and fanIn.                                         *)
(***************************************************************************)
\* a nil channel, the Done channel of input i, the Done channel of the
\* merged context
NilCh == <<"nil", 0>>
InCh(i) == <<"in", i>>
CtxCh == <<"ctx", 0>>

InputKinds == {"background", "cancellable"}

\* c.Done(): context.Background() has a nil Done channel
DoneOf(kind, i) == IF kind = "background" THEN NilCh ELSE InCh(i)

\* doneChannels: make([]<-chan struct{}, len(ctxs)+1) holds len(ctxs)+1 nil
\* channels, then the inputs' Done channels and ctx.Done() are appended
doneChannels(kinds) ==
    LET n == Len(kinds)
    IN  [k \in 1..(2 * n + 2) |->
            IF k <= n + 1 THEN NilCh
            ELSE IF k <= 2 * n + 1 THEN DoneOf(kinds[k - n - 1], k - n - 1)
            ELSE CtxCh]

\* a receive that treats a nil channel as a closed one
ChanReady_nil(ch) ==
    CASE ch[1] = "nil" -> TRUE
      [] ch[1] = "in"  -> m_inDone[ch[2]]
      [] ch[1] = "ctx" -> m_ctxDone

\* a receive from the channel can proceed: the channel is closed; a receive
\* from a nil channel blocks forever
ChanReady(ch) ==
    CASE ch[1] = "nil" -> FALSE
      [] ch[1] = "in"  -> m_inDone[ch[2]]
      [] ch[1] = "ctx" -> m_ctxDone

Watchers == DOMAIN m_chs

InitMerge ==
    /\ m_n = 0
    /\ m_inKind = <<>>
    /\ m_inDone = <<>>
    /\ m_cancelled = FALSE
    /\ m_ctxDone = FALSE
    /\ m_result = FALSE
    /\ m_once = FALSE
    /\ m_chs = <<>>
    /\ m_wpc = <<>>
    /\ m_gpc = "none"

\* Merge(ctxs...): an input may be a background context; fanIn starts a
\* watcher per channel, Merge starts the task that waits on the result (an
\* input cancelled before the call is one cancelled before any watcher runs)
Merge(kinds) ==
    /\ m_n = 0
    /\ m_n' = Len(kinds)
    /\ m_inKind' = kinds
    /\ m_inDone' = [i \in DOMAIN kinds |-> FALSE]
    /\ m_chs' = doneChannels(kinds)
    /\ m_wpc' = [k \in DOMAIN doneChannels(kinds) |-> "select"]
    /\ m_gpc' = "wait"
    /\ UNCHANGED <<m_cancelled, m_ctxDone, m_result, m_once, fvars, dvars, pvars, bvars, rvars, cvars, gvars, wvars, xvars, evars>>

\* the owner of an input context cancels it
InputCancel(i) ==
    /\ i \in DOMAIN m_inKind
    /\ m_inKind[i] = "cancellable"
    /\ ~m_inDone[i]
    /\ m_inDone' = [m_inDone EXCEPT ![i] = TRUE]
    /\ UNCHANGED <<m_n, m_inKind, m_cancelled, m_ctxDone, m_result, m_once, m_chs,
                   m_wpc, m_gpc, fvars, dvars, pvars, bvars, rvars, cvars, gvars, wvars, xvars, evars>>

\* the caller of Merge invokes the returned cancel function
ManualCancel ==
    /\ m_n > 0
    /\ ~m_cancelled
    /\ m_cancelled' = TRUE
    /\ m_ctxDone' = TRUE
    /\ UNCHANGED <<m_n, m_inKind, m_inDone, m_result, m_once, m_chs, m_wpc, m_gpc,
                   fvars, dvars, pvars, bvars, rvars, cvars, gvars, wvars, xvars, evars>>

\* fanIn watcher, select: case <-result: return
WatcherResult(w) ==
    /\ w \in Watchers
    /\ m_wpc[w] = "select"
    /\ m_result
    /\ m_wpc' = [m_wpc EXCEPT ![w] = "exit"]
    /\ UNCHANGED <<m_n, m_inKind, m_inDone, m_cancelled, m_ctxDone, m_result, m_once,
                   m_chs, m_gpc, fvars, dvars, pvars, bvars, rvars, cvars, gvars, wvars, xvars, evars>>

\* fanIn watcher, select: case <-channel
WatcherChannel(w) ==
    /\ w \in Watchers
    /\ m_wpc[w] = "select"
    /\ ChanReady(m_chs[w])
    /\ m_wpc' = [m_wpc EXCEPT ![w] = "once"]
    /\ UNCHANGED <<m_n, m_inKind, m_inDone, m_cancelled, m_ctxDone, m_result, m_once,
                   m_chs, m_gpc, fvars, dvars, pvars, bvars, rvars, cvars, gvars, wvars, xvars, evars>>

\* a once.Do that marks the Once without closing result
WatcherOnce_noclose(w) ==
    /\ w \in Watchers
    /\ m_wpc[w] = "once"
    /\ m_once' = TRUE
    /\ m_wpc' = [m_wpc EXCEPT ![w] = "exit"]
    /\ UNCHANGED <<m_n, m_inKind, m_inDone, m_cancelled, m_ctxDone, m_result, m_chs,
                   m_gpc, fvars, dvars, pvars, bvars, rvars, cvars, gvars, wvars, xvars, evars>>

\* fanIn watcher: once.Do(func() { close(result) }); return
WatcherOnce(w) ==
    /\ w \in Watchers
    /\ m_wpc[w] = "once"
    /\ m_result' = (m_result \/ ~m_once)
    /\ m_once' = TRUE
    /\ m_wpc' = [m_wpc EXCEPT ![w] = "exit"]
    /\ UNCHANGED <<m_n, m_inKind, m_inDone, m_cancelled, m_ctxDone, m_chs, m_gpc,
                   fvars, dvars, pvars, bvars, rvars, cvars, gvars, wvars, xvars, evars>>

\* the task started by Merge: <-doneCh
WaiterRecv ==
    /\ m_gpc = "wait"
    /\ m_result
    /\ m_gpc' = "cancel"
    /\ UNCHANGED <<m_n, m_inKind, m_inDone, m_cancelled, m_ctxDone, m_result, m_once,
                   m_chs, m_wpc, fvars, dvars, pvars, bvars, rvars, cvars, gvars, wvars, xvars, evars>>

\* a waiting task that returns without cancelling the merged context
WaiterCancel_skip ==
    /\ m_gpc = "cancel"
    /\ m_gpc' = "exit"
    /\ UNCHANGED <<m_n, m_inKind, m_inDone, m_cancelled, m_ctxDone, m_result, m_once,
                   m_chs, m_wpc, fvars, dvars, pvars, bvars, rvars, cvars, gvars, wvars, xvars, evars>>

\* the task started by Merge: cancel()
WaiterCancel ==
    /\ m_gpc = "cancel"
    /\ m_ctxDone' = TRUE
    /\ m_gpc' = "exit"
    /\ UNCHANGED <<m_n, m_inKind, m_inDone, m_cancelled, m_result, m_once, m_chs,
                   m_wpc, fvars, dvars, pvars, bvars, rvars, cvars, gvars, wvars, xvars, evars>>

\* the steps of watcher w, of the waiting task
WatcherStep(w) == WatcherResult(w) \/ WatcherChannel(w) \/ WatcherOnce(w)
WaiterStep == WaiterRecv \/ WaiterCancel

MergeInputs == UNION {[1..n -> InputKinds] : n \in 1..MaxInputs}

NextMerge ==
    \/ \E kinds \in MergeInputs : Merge(kinds)
    \/ \E i \in 1..MaxInputs : InputCancel(i)
    \/ ManualCancel
    \/ \E w \in 1..(2 * MaxInputs + 2) : WatcherResult(w)
    \/ \E w \in 1..(2 * MaxInputs + 2) : WatcherChannel(w)
    \/ \E w \in 1..(2 * MaxInputs + 2) : WatcherOnce(w)
    \/ WaiterRecv
    \/ WaiterCancel

(***************************************************************************)
(* Partitioner.                                                            *)
(***************************************************************************)
Callers == 1..NCallers

\* the messages, as byte strings: "a" and "ac"
Messages == {<<97>>, <<97, 99>>}

\* key extractors: none, or the one that returns the first byte of the
\* message (the two messages have equal keys)
KeyFns == {"nil", "first"}

\* config.keyFn(message)
keyFn(fn, message) == SubSeq(message, 1, 1)

\* the arguments tried for count: two that are rejected, the smallest and
\* the largest that are accepted
Counts == {0 - 1, 0, 1, MaxCount}

\* bitwise exclusive or of the n low bits of a and b
RECURSIVE BitXor(_, _, _)
BitXor(a, b, n) ==
    IF n = 0 THEN 0
    ELSE (((a % 2) + (b % 2)) % 2) + 2 * BitXor(a \div 2, b \div 2, n - 1)

\* a 32-bit hash value is kept as its two 16-bit halves
\* hash ^= uint32(c)
FnvXor(h, c) ==
    [hi |-> h.hi, lo |-> ((h.lo \div 256) * 256) + BitXor(h.lo % 256, c, 8)]

\* hash *= prime32, modulo 2^32
FnvMul(h) ==
    LET pLo == fnvPrime32 % 65536
        pHi == fnvPrime32 \div 65536
        low == h.lo * pLo
    IN  [hi |-> ((h.hi * pLo) + (h.lo * pHi) + (low \div 65536)) % 65536,
         lo |-> low % 65536]

\* fnv.New32a(), Write: FNV-1a over the bytes of s, from hash value h
RECURSIVE Fnv32a(_, _)
Fnv32a(h, s) ==
    IF s = <<>> THEN h ELSE Fnv32a(FnvMul(FnvXor(h, Head(s))), Tail(s))

\* h.Sum32() % uint32(n)
hashToRange(s, n) ==
    LET h == Fnv32a([hi |-> fnvOffsetHi, lo |-> fnvOffsetLo], s)
    IN  (((h.hi % n) * (65536 % n)) + (h.lo % n)) % n

\* a cursor that advances without wrapping
RRCircleLoad_nowrap(c) == [ret |-> c.v, v |-> c.v + 1]

\* RRCircle.Load: return the cursor, then advance it, wrapping at count-1
RRCircleLoad(c) ==
    [ret |-> c.v, v |-> IF c.v = c.count - 1 THEN 0 ELSE c.v + 1]

\* a new Config record
NewConfig(mode, count, fn) ==
    [mode |-> mode, count |-> count, keyFn |-> fn, v |-> 0,
     out |-> <<>>, keyed |-> {}]

\* a record that has become garbage
Dead == NewConfig("dead", 0, "nil")

\* the records still referred to, by the config value or by a call in
\* progress; the others are garbage
Collect(configs, cur, ccfg) ==
    [c \in DOMAIN configs |->
        IF c = cur \/ \E p \in Callers : ccfg[p] = c THEN configs[c] ELSE Dead]

\* NewPartitioner: round-robin over one partition
InitPart ==
    /\ r_configs = <<NewConfig(defaultPartitionMode, 1, "nil")>>
    /\ r_cur = 1
    /\ r_cpc = [p \in Callers |-> "idle"]
    /\ r_ccfg = [p \in Callers |-> 0]
    /\ r_cidx = [p \in Callers |-> 0]
    /\ r_calls = 0
    /\ r_overlap = FALSE
    /\ r_nrej = 0
    /\ r_ret = "none"

\* a call that reads the record the config value points to now
ConfigOf_current(p) == r_configs[r_cur]

\* the record the call of p loaded
ConfigOf(p) == r_configs[r_ccfg[p]]

\* WriteFn: config := p.config.Load()
WriteLoad(p) ==
    /\ r_cpc[p] = "idle"
    /\ r_calls < MaxWrites
    /\ r_calls' = r_calls + 1
    /\ r_ccfg' = [r_ccfg EXCEPT ![p] = r_cur]
    /\ r_cpc' = [r_cpc EXCEPT ![p] = "loaded"]
    /\ r_overlap' = (r_overlap \/ \E q \in Callers : r_cpc[q] # "idle")
    /\ UNCHANGED <<r_configs, r_cur, r_cidx, r_nrej, r_ret,
                   fvars, dvars, pvars, bvars, mvars, cvars, gvars, wvars, xvars, evars>>

\* the call of p has chosen index
Chosen(p, index) ==
    /\ r_cidx' = [r_cidx EXCEPT ![p] = index]
    /\ r_cpc' = [r_cpc EXCEPT ![p] = "indexed"]

\* a Load that returns the cursor and leaves it where it was
WriteRoundRobin_noadvance(p) ==
    /\ r_cpc[p] = "loaded"
    /\ ConfigOf(p).mode = "round_robin"
    /\ Chosen(p, ConfigOf(p).v)
    /\ UNCHANGED <<r_configs, r_cur, r_ccfg, r_calls, r_overlap, r_nrej, r_ret,
                   fvars, dvars, pvars, bvars, mvars, cvars, gvars, wvars, xvars, evars>>

\* WriteFn, case roundRobinMode: index := config.rr.Load(), under the mutex
\* of the RRCircle
WriteRoundRobin(p) ==
    /\ r_cpc[p] = "loaded"
    /\ ConfigOf(p).mode = "round_robin"
    /\ Chosen(p, RRCircleLoad(ConfigOf(p)).ret)
    /\ r_configs' = [r_configs EXCEPT ![r_ccfg[p]].v = RRCircleLoad(ConfigOf(p)).v]
    /\ UNCHANGED <<r_cur, r_ccfg, r_calls, r_overlap, r_nrej, r_ret,
                   fvars, dvars, pvars, bvars, mvars, cvars, gvars, wvars, xvars, evars>>

\* a key mode that hashes the whole message instead of its key
WriteKey_message(p, message) ==
    /\ r_cpc[p] = "loaded"
    /\ ConfigOf(p).mode = "key"
    /\ Chosen(p, hashToRange(message, ConfigOf(p).count))
    /\ r_configs' = [r_configs EXCEPT ![r_ccfg[p]].keyed =
                        @ \cup {[message |-> message, index |-> r_cidx'[p]]}]
    /\ UNCHANGED <<r_cur, r_ccfg, r_calls, r_overlap, r_nrej, r_ret,
                   fvars, dvars, pvars, bvars, mvars, cvars, gvars, wvars, xvars, evars>>

\* WriteFn, case keyMode: index := hashToRange(config.keyFn(message),
\* config.count); the message of the call is drawn here, where it is read
WriteKey(p, message) ==
    /\ r_cpc[p] = "loaded"
    /\ ConfigOf(p).mode = "key"
    /\ Chosen(p, hashToRange(keyFn(ConfigOf(p).keyFn, message), ConfigOf(p).count))
    /\ r_configs' = [r_configs EXCEPT ![r_ccfg[p]].keyed =
                        @ \cup {[message |-> message, index |-> r_cidx'[p]]}]
    /\ UNCHANGED <<r_cur, r_ccfg, r_calls, r_overlap, r_nrej, r_ret,
                   fvars, dvars, pvars, bvars, mvars, cvars, gvars, wvars, xvars, evars>>

\* WriteFn, case randomMode: index := rand.Intn(config.count)
WriteRandom(p, index) ==
    /\ r_cpc[p] = "loaded"
    /\ ConfigOf(p).mode = "random"
    /\ index \in 0..(ConfigOf(p).count - 1)
    /\ Chosen(p, index)
    /\ UNCHANGED <<r_configs, r_cur, r_ccfg, r_calls, r_overlap, r_nrej, r_ret,
                   fvars, dvars, pvars, bvars, mvars, cvars, gvars, wvars, xvars, evars>>

\* WriteFn: return p.writePartitionFn(ctx, index, message, callback); the
\* call is over and lets go of the record it loaded
WritePartition(p) ==
    /\ r_cpc[p] = "indexed"
    /\ r_cpc' = [r_cpc EXCEPT ![p] = "idle"]
    /\ r_ccfg' = [r_ccfg EXCEPT ![p] = 0]
    /\ r_cidx' = [r_cidx EXCEPT ![p] = 0]
    /\ r_configs' = Collect([r_configs EXCEPT ![r_ccfg[p]].out = Append(@, r_cidx[p])],
                            r_cur, r_ccfg')
    /\ UNCHANGED <<r_cur, r_calls, r_overlap, r_nrej, r_ret,
                   fvars, dvars, pvars, bvars, mvars, cvars, gvars, wvars, xvars, evars>>

\* a Set...Mode call returns err without storing anything
SetRejected(err) ==
    /\ r_nrej < MaxRejects
    /\ r_nrej' = r_nrej + 1
    /\ r_ret' = err
    /\ UNCHANGED <<r_configs, r_cur>>

\* p.config.Store(&Config{...}); return nil
SetStored(config) ==
    /\ Len(r_configs) <= MaxStores
    /\ r_ret' = "nil"
    /\ r_cur' = Len(r_configs) + 1
    /\ r_configs' = Collect(Append(r_configs, config), Len(r_configs) + 1, r_ccfg)
    /\ UNCHANGED r_nrej

SetRandomMode(count) ==
    /\ IF count <= 0
       THEN SetRejected("ErrInvalidCount")
       ELSE SetStored(NewConfig("random", count, "nil"))
    /\ UNCHANGED <<r_cpc, r_ccfg, r_cidx, r_calls, r_overlap,
                   fvars, dvars, pvars, bvars, mvars, cvars, gvars, wvars, xvars, evars>>

\* a SetRoundRobinMode that stores the record without looking at count
SetRoundRobinMode_nocheck(count) ==
    /\ SetStored(NewConfig("round_robin", count, "nil"))
    /\ UNCHANGED <<r_cpc, r_ccfg, r_cidx, r_calls, r_overlap,
                   fvars, dvars, pvars, bvars, mvars, cvars, gvars, wvars, xvars, evars>>

SetRoundRobinMode(count) ==
    /\ IF count <= 0
       THEN SetRejected("ErrInvalidCount")
       ELSE SetStored(NewConfig("round_robin", count, "nil"))
    /\ UNCHANGED <<r_cpc, r_ccfg, r_cidx, r_calls, r_overlap,
                   fvars, dvars, pvars, bvars, mvars, cvars, gvars, wvars, xvars, evars>>

SetKeyMode(fn, count) ==
    /\ IF count <= 0
       THEN SetRejected("ErrInvalidCount")
       ELSE IF fn = "nil"
       THEN SetRejected("ErrInvalidKey")
       ELSE SetStored(NewConfig("key", count, fn))
    /\ UNCHANGED <<r_cpc, r_ccfg, r_cidx, r_calls, r_overlap,
                   fvars, dvars, pvars, bvars, mvars, cvars, gvars, wvars, xvars, evars>>

NextPart ==
    \/ \E p \in Callers : WriteLoad(p)
    \/ \E p \in Callers : WriteRoundRobin(p)
    \/ \E p \in Callers, message \in Messages : WriteKey(p, message)
    \/ \E p \in Callers, index \in 0..(MaxCount - 1) : WriteRandom(p, index)
    \/ \E p \in Callers : WritePartition(p)
    \/ \E count \in Counts : SetRandomMode(count)
    \/ \E count \in Counts : SetRoundRobinMode(count)
    \/ \E fn \in KeyFns, count \in Counts : SetKeyMode(fn, count)


(***************************************************************************)
(* Consumer: the owning task's calls, the processing task of the current   *)
(* mode and its ticker, on a clock that counts seconds.                    *)
(***************************************************************************)
ConsumerModes == {"batch", "time", "hybrid"}
\* the sizes given to SetBatchSize
BatchSizes == {minBatchSize - 1, 2}
\* the messages handed to the processing task
ConsumerMessages == {"a"}
\* the periods given to SetTickerPeriod
Periods == {1}

NoFlush == [by |-> "none", run |-> 0]
NoSizeFlush == [age |-> 0, period |-> 0, run |-> 0]

\* the state NewConsumer returns: mode is the zero value, for which start()
\* launches no processing task
InitCons ==
    /\ c_mode = ""
    /\ c_batchSize = defaultBatchSize
    /\ c_period = defaultPeriodTime
    /\ c_buffer = <<>>
    /\ c_closed = FALSE
    /\ c_closeCh = FALSE
    /\ c_ctxDone = FALSE
    /\ c_wg = 0
    /\ c_run = 0
    /\ c_kind = "none"
    /\ c_ppc = "exit"
    /\ c_left = 0
    /\ c_tper = 0
    /\ c_tick = FALSE
    /\ c_opc = "idle"
    /\ c_oarg = "none"
    /\ c_ops = 0
    /\ c_ret = "none"
    /\ c_flush = NoFlush
    /\ c_lastSize = NoSizeFlush

\* SetMode(ctx, mode) begins with Close
ConsSetMode(m) ==
    /\ c_opc = "idle"
    /\ c_ops < MaxConsumerOps
    /\ c_ops' = c_ops + 1
    /\ c_oarg' = m
    /\ c_opc' = "close"
    /\ UNCHANGED <<c_mode, c_batchSize, c_period, c_buffer, c_closed, c_closeCh,
                   c_ctxDone, c_wg, c_run, c_kind, c_ppc, c_left,
                   c_tper, c_tick, c_ret, c_flush, c_lastSize,
                   fvars, dvars, pvars, bvars, mvars, rvars, gvars, wvars, xvars, evars>>

\* the owning task calls Close
ConsCloseCall ==
    /\ c_opc = "idle"
    /\ c_ops < MaxConsumerOps
    /\ c_ops' = c_ops + 1
    /\ c_oarg' = "none"
    /\ c_opc' = "close"
    /\ UNCHANGED <<c_mode, c_batchSize, c_period, c_buffer, c_closed, c_closeCh,
                   c_ctxDone, c_wg, c_run, c_kind, c_ppc, c_left,
                   c_tper, c_tick, c_ret, c_flush, c_lastSize,
                   fvars, dvars, pvars, bvars, mvars, rvars, gvars, wvars, xvars, evars>>

\* where Close returns to: SetMode goes on to set the mode and start()
ConsCloseReturnPc == IF c_oarg = "none" THEN "idle" ELSE "start"

\* Close: if c.closed.Swap(true) { return nil }; close(c.closeCh)
ConsCloseSwap ==
    /\ c_opc = "close"
    /\ IF c_closed
       THEN /\ c_opc' = ConsCloseReturnPc
            /\ UNCHANGED <<c_closed, c_closeCh>>
       ELSE /\ c_closed' = TRUE
            /\ c_closeCh' = TRUE
            /\ c_opc' = "wait"
    /\ UNCHANGED <<c_mode, c_batchSize, c_period, c_buffer, c_ctxDone, c_wg, c_run,
                   c_kind, c_ppc, c_left, c_tper, c_tick, c_oarg,
                   c_ops, c_ret, c_flush, c_lastSize,
                   fvars, dvars, pvars, bvars, mvars, rvars, gvars, wvars, xvars, evars>>

\* Close: c.closedWg.Wait(); return nil
ConsCloseWait ==
    /\ c_opc = "wait"
    /\ c_wg = 0
    /\ c_opc' = ConsCloseReturnPc
    /\ UNCHANGED <<c_mode, c_batchSize, c_period, c_buffer, c_closed, c_closeCh,
                   c_ctxDone, c_wg, c_run, c_kind, c_ppc, c_left,
                   c_tper, c_tick, c_oarg, c_ops, c_ret, c_flush, c_lastSize,
                   fvars, dvars, pvars, bvars, mvars, rvars, gvars, wvars, xvars, evars>>

\* SetMode after Close: c.mode = mode; start(): unless closed was already
\* false, make a new closeCh and launch the process of the mode
\* (closedWg.Add(1) and go func)
ConsStart ==
    /\ c_opc = "start"
    /\ c_mode' = c_oarg
    /\ c_closed' = FALSE
    /\ c_opc' = "idle"
    /\ IF c_closed
       THEN /\ c_closeCh' = FALSE
            /\ c_wg' = c_wg + 1
            /\ c_run' = c_run + 1
            /\ c_kind' = c_oarg
            /\ c_ppc' = IF c_oarg = "batch" THEN "select" ELSE "ticker"
       ELSE UNCHANGED <<c_closeCh, c_wg, c_run, c_kind, c_ppc>>
    /\ UNCHANGED <<c_batchSize, c_period, c_buffer, c_ctxDone, c_left, c_tper, c_tick, c_oarg, c_ops, c_ret, c_flush,
                   c_lastSize, fvars, dvars, pvars, bvars, mvars, rvars, gvars, wvars, xvars, evars>>

\* SetBatchSize(size)
ConsSetBatchSize(size) ==
    /\ c_opc = "idle"
    /\ c_ops < MaxConsumerOps
    /\ c_ops' = c_ops + 1
    /\ IF size < minBatchSize \/ size > maxBatchSize
       THEN /\ c_ret' = "ErrInvalidBatchSize"
            /\ UNCHANGED c_batchSize
       ELSE /\ c_ret' = "nil"
            /\ c_batchSize' = size
    /\ UNCHANGED <<c_mode, c_period, c_buffer, c_closed, c_closeCh, c_ctxDone,
                   c_wg, c_run, c_kind, c_ppc, c_left, c_tper,
                   c_tick, c_opc, c_oarg, c_flush, c_lastSize,
                   fvars, dvars, pvars, bvars, mvars, rvars, gvars, wvars, xvars, evars>>

\* SetTickerPeriod(period)
ConsSetTickerPeriod(period) ==
    /\ c_opc = "idle"
    /\ c_ops < MaxConsumerOps
    /\ c_ops' = c_ops + 1
    /\ c_period' = period
    /\ UNCHANGED <<c_mode, c_batchSize, c_buffer, c_closed, c_closeCh, c_ctxDone,
                   c_wg, c_run, c_kind, c_ppc, c_left, c_tper,
                   c_tick, c_opc, c_oarg, c_ret, c_flush, c_lastSize,
                   fvars, dvars, pvars, bvars, mvars, rvars, gvars, wvars, xvars, evars>>

\* the owner of the context given to SetMode cancels it
ConsCtxCancel ==
    /\ ~c_ctxDone
    /\ c_ctxDone' = TRUE
    /\ UNCHANGED <<c_mode, c_batchSize, c_period, c_buffer, c_closed, c_closeCh,
                   c_wg, c_run, c_kind, c_ppc, c_left, c_tper,
                   c_tick, c_opc, c_oarg, c_ops, c_ret, c_flush, c_lastSize,
                   fvars, dvars, pvars, bvars, mvars, rvars, gvars, wvars, xvars, evars>>

\* one second passes; a running ticker whose time has come puts a tick in
\* its channel (which holds at most one) and starts its next period
ConsTimeAdvance ==
    /\ c_left' = IF c_left = 1 THEN c_tper ELSE IF c_left = 0 THEN 0 ELSE c_left - 1
    /\ c_tick' = (c_tick \/ c_left = 1)
    /\ c_lastSize' = [c_lastSize EXCEPT !.age = IF @ < c_lastSize.period THEN @ + 1 ELSE @]
    /\ UNCHANGED <<c_mode, c_batchSize, c_period, c_buffer, c_closed, c_closeCh,
                   c_ctxDone, c_wg, c_run, c_kind, c_ppc, c_tper, c_opc,
                   c_oarg, c_ops, c_ret, c_flush,
                   fvars, dvars, pvars, bvars, mvars, rvars, gvars, wvars, xvars, evars>>

\* timeProcess, hybridProcess: ticker := time.NewTicker(c.tickerPeriod.Load())
ConsNewTicker ==
    /\ c_ppc = "ticker"
    /\ c_left' = c_period
    /\ c_tper' = c_period
    /\ c_tick' = FALSE
    /\ c_ppc' = "select"
    /\ UNCHANGED <<c_mode, c_batchSize, c_period, c_buffer, c_closed, c_closeCh,
                   c_ctxDone, c_wg, c_run, c_kind, c_opc, c_oarg,
                   c_ops, c_ret, c_flush, c_lastSize,
                   fvars, dvars, pvars, bvars, mvars, rvars, gvars, wvars, xvars, evars>>

\* the processing task returns: the deferred ticker.Stop() and closedWg.Done()
ConsProcReturn ==
    /\ c_ppc' = "exit"
    /\ c_wg' = c_wg - 1
    /\ c_left' = 0
    /\ c_tick' = FALSE
    /\ UNCHANGED <<c_mode, c_batchSize, c_period, c_buffer, c_closed, c_closeCh,
                   c_ctxDone, c_run, c_kind, c_tper, c_opc, c_oarg,
                   c_ops, c_ret, c_flush, c_lastSize,
                   fvars, dvars, pvars, bvars, mvars, rvars, gvars, wvars, xvars, evars>>

\* select, case <-c.closeCh: return
ConsExitClose ==
    /\ c_ppc = "select"
    /\ c_closeCh
    /\ ConsProcReturn

\* select, case <-ctx.Done(): return
ConsExitCtx ==
    /\ c_ppc = "select"
    /\ c_ctxDone
    /\ ConsProcReturn

\* flush(ctx) on the buffer buf: nothing for an empty buffer, else clone it,
\* truncate it and start a task that calls flushFn on the clone
ConsFlush(buf, by) ==
    IF Len(buf) = 0
    THEN /\ c_buffer' = buf
         /\ UNCHANGED c_flush
    ELSE /\ c_buffer' = <<>>
         /\ c_flush' = [by |-> by, run |-> c_run]

\* batchProcess, case v := <-c.readCh: append; flush at batchSize
BatchTake(v) ==
    /\ c_ppc = "select"
    /\ c_kind = "batch"
    /\ Len(c_buffer) < MaxConsume
    /\ LET buf == Append(c_buffer, v)
       IN IF c_batchSize <= Len(buf)
          THEN ConsFlush(buf, "size")
          ELSE c_buffer' = buf /\ UNCHANGED c_flush
    /\ UNCHANGED <<c_mode, c_batchSize, c_period, c_closed, c_closeCh, c_ctxDone,
                   c_wg, c_run, c_kind, c_ppc, c_left, c_tper, c_tick,
                   c_opc, c_oarg, c_ops, c_ret, c_lastSize,
                   fvars, dvars, pvars, bvars, mvars, rvars, gvars, wvars, evars>>

\* batchProcess receives v from a sender that is not modelled further
BatchRecv(v) == BatchTake(v) /\ UNCHANGED xvars

\* timeProcess, case v := <-c.readCh: append
TimeTake(v) ==
    /\ c_ppc = "select"
    /\ c_kind = "time"
    /\ Len(c_buffer) < MaxConsume
    /\ c_buffer' = Append(c_buffer, v)
    /\ UNCHANGED <<c_mode, c_batchSize, c_period, c_closed, c_closeCh, c_ctxDone,
                   c_wg, c_run, c_kind, c_ppc, c_left, c_tper, c_tick,
                   c_opc, c_oarg, c_ops, c_ret, c_flush, c_lastSize,
                   fvars, dvars, pvars, bvars, mvars, rvars, gvars, wvars, evars>>

\* timeProcess receives v from a sender that is not modelled further
TimeRecv(v) == TimeTake(v) /\ UNCHANGED xvars

\* timeProcess, case <-ticker.C: flush
TimeTick ==
    /\ c_ppc = "select"
    /\ c_kind = "time"
    /\ c_tick
    /\ c_tick' = FALSE
    /\ ConsFlush(c_buffer, "tick")
    /\ UNCHANGED <<c_mode, c_batchSize, c_period, c_closed, c_closeCh, c_ctxDone,
                   c_wg, c_run, c_kind, c_ppc, c_left, c_tper,
                   c_opc, c_oarg, c_ops, c_ret, c_lastSize,
                   fvars, dvars, pvars, bvars, mvars, rvars, gvars, wvars, xvars, evars>>

\* a hybridProcess that flushes at batchSize without ticker.Reset
HybridTake_noreset(v) ==
    /\ c_ppc = "select"
    /\ c_kind = "hybrid"
    /\ Len(c_buffer) < MaxConsume
    /\ LET buf == Append(c_buffer, v)
       IN IF c_batchSize <= Len(buf)
          THEN /\ ConsFlush(buf, "size")
               /\ c_lastSize' = [age |-> 0, period |-> c_period, run |-> c_run]
          ELSE /\ c_buffer' = buf
               /\ UNCHANGED <<c_flush, c_lastSize>>
    /\ UNCHANGED <<c_left, c_tper, c_tick>>
    /\ UNCHANGED <<c_mode, c_batchSize, c_period, c_closed, c_closeCh, c_ctxDone,
                   c_wg, c_run, c_kind, c_ppc, c_opc, c_oarg, c_ops, c_ret,
                   fvars, dvars, pvars, bvars, mvars, rvars, gvars, wvars, evars>>

\* hybridProcess, case v := <-c.readCh: append; at batchSize
\* ticker.Reset(c.tickerPeriod.Load()), which drops a waiting tick and sets
\* the next one a period from now, then flush
HybridTake(v) ==
    /\ c_ppc = "select"
    /\ c_kind = "hybrid"
    /\ Len(c_buffer) < MaxConsume
    /\ LET buf == Append(c_buffer, v)
       IN IF c_batchSize <= Len(buf)
          THEN /\ c_left' = c_period
               /\ c_tper' = c_period
               /\ c_tick' = FALSE
               /\ ConsFlush(buf, "size")
               /\ c_lastSize' = [age |-> 0, period |-> c_period, run |-> c_run]
          ELSE /\ c_buffer' = buf
               /\ UNCHANGED <<c_left, c_tper, c_tick, c_flush, c_lastSize>>
    /\ UNCHANGED <<c_mode, c_batchSize, c_period, c_closed, c_closeCh, c_ctxDone,
                   c_wg, c_run, c_kind, c_ppc, c_opc, c_oarg, c_ops, c_ret,
                   fvars, dvars, pvars, bvars, mvars, rvars, gvars, wvars, evars>>

\* hybridProcess receives v from a sender that is not modelled further
HybridRecv(v) == HybridTake(v) /\ UNCHANGED xvars

\* hybridProcess, case <-ticker.C: flush
HybridTick ==
    /\ c_ppc = "select"
    /\ c_kind = "hybrid"
    /\ c_tick
    /\ c_tick' = FALSE
    /\ ConsFlush(c_buffer, "tick")
    /\ UNCHANGED <<c_mode, c_batchSize, c_period, c_closed, c_closeCh, c_ctxDone,
                   c_wg, c_run, c_kind, c_ppc, c_left, c_tper,
                   c_opc, c_oarg, c_ops, c_ret, c_lastSize,
                   fvars, dvars, pvars, bvars, mvars, rvars, gvars, wvars, xvars, evars>>


\* the messages a producer sends into the channel returned by In: one the
\* validation function accepts and one it rejects
InMessages == {"a", "bad"}

\* validMessageFn(v): nil, or an error
validMessageFn(v) == IF v = "bad" THEN "invalid" ELSE "nil"

\* before In is called there is no proxy and the DLQ is empty
InitIn ==
    /\ x_pc = "none"
    /\ x_msg = ""
    /\ x_n = 0
    /\ x_dlq = <<>>
    /\ x_dropped = FALSE

\* In(ctx): c.closedWg.Add(1) and go func, the proxy
ConsIn ==
    /\ x_pc = "none"
    /\ x_pc' = "select"
    /\ c_wg' = c_wg + 1
    /\ UNCHANGED <<c_mode, c_batchSize, c_period, c_buffer, c_closed, c_closeCh,
                   c_ctxDone, c_run, c_kind, c_ppc, c_left, c_tper, c_tick,
                   c_opc, c_oarg, c_ops, c_ret, c_flush, c_lastSize,
                   x_msg, x_n, x_dlq, x_dropped,
                   fvars, dvars, pvars, bvars, mvars, rvars, gvars, wvars, evars>>

\* the proxy returns: the deferred c.closedWg.Done()
ProxyReturn ==
    /\ x_pc' = "exit"
    /\ c_wg' = c_wg - 1
    /\ UNCHANGED <<c_mode, c_batchSize, c_period, c_buffer, c_closed, c_closeCh,
                   c_ctxDone, c_run, c_kind, c_ppc, c_left, c_tper, c_tick,
                   c_opc, c_oarg, c_ops, c_ret, c_flush, c_lastSize,
                   x_msg, x_n, x_dlq, x_dropped,
                   fvars, dvars, pvars, bvars, mvars, rvars, gvars, wvars, evars>>

\* proxy select, case <-c.closeCh: return
ProxyExitClose ==
    /\ x_pc = "select"
    /\ c_closeCh
    /\ ProxyReturn

\* proxy select, case <-ctx.Done(): return
ProxyExitCtx ==
    /\ x_pc = "select"
    /\ c_ctxDone
    /\ ProxyReturn

\* a proxy without the continue: a rejected message is also sent on readCh
ProxyRecv_forward(v) ==
    /\ x_pc = "select"
    /\ x_n < MaxIn
    /\ x_n' = x_n + 1
    /\ IF validMessageFn(v) # "nil"
       THEN /\ IF Len(x_dlq) < dlqBufferSize
               THEN /\ x_dlq' = Append(x_dlq, [Message |-> v, Err |-> validMessageFn(v)])
                    /\ UNCHANGED x_dropped
               ELSE /\ x_dropped' = TRUE
                    /\ UNCHANGED x_dlq
            /\ x_pc' = "send"
            /\ x_msg' = v
       ELSE /\ x_pc' = "send"
            /\ x_msg' = v
            /\ UNCHANGED <<x_dlq, x_dropped>>
    /\ UNCHANGED <<cvars, fvars, dvars, pvars, bvars, mvars, rvars, gvars, wvars, evars>>

\* proxy select, case v := <-in: validate; a rejected message goes to the
\* DLQ with its error if the DLQ has room and is dropped otherwise; an
\* accepted one is next sent on readCh
ProxyRecv(v) ==
    /\ x_pc = "select"
    /\ x_n < MaxIn
    /\ x_n' = x_n + 1
    /\ IF validMessageFn(v) # "nil"
       THEN /\ IF Len(x_dlq) < dlqBufferSize
               THEN /\ x_dlq' = Append(x_dlq, [Message |-> v, Err |-> validMessageFn(v)])
                    /\ UNCHANGED x_dropped
               ELSE /\ x_dropped' = TRUE
                    /\ UNCHANGED x_dlq
            /\ UNCHANGED <<x_pc, x_msg>>
       ELSE /\ x_pc' = "send"
            /\ x_msg' = v
            /\ UNCHANGED <<x_dlq, x_dropped>>
    /\ UNCHANGED <<cvars, fvars, dvars, pvars, bvars, mvars, rvars, gvars, wvars, evars>>

\* the proxy's c.readCh <- v completes: the processing task of the current
\* mode is in its select and takes the case v := <-c.readCh
ProxySend ==
    /\ x_pc = "send"
    /\ BatchTake(x_msg) \/ TimeTake(x_msg) \/ HybridTake(x_msg)
    /\ x_pc' = "select"
    /\ x_msg' = ""
    /\ UNCHANGED <<x_n, x_dlq, x_dropped>>

\* a reader of DLQ() receives the oldest pair
DlqRead ==
    /\ x_dlq # <<>>
    /\ x_dlq' = Tail(x_dlq)
    /\ UNCHANGED <<x_pc, x_msg, x_n, x_dropped, cvars, fvars, dvars, pvars, bvars,
                   mvars, rvars, gvars, wvars, evars>>

\* the consumer fed through the proxy of In
NextConsIn ==
    \/ \E m \in ConsumerModes : ConsSetMode(m)
    \/ ConsCloseCall
    \/ ConsCloseSwap
    \/ ConsCloseWait
    \/ ConsStart
    \/ ConsCtxCancel
    \/ ConsNewTicker
    \/ ConsExitClose
    \/ ConsExitCtx
    \/ ConsIn
    \/ ProxyExitClose
    \/ ProxyExitCtx
    \/ \E v \in InMessages : ProxyRecv(v)
    \/ ProxySend
    \/ DlqRead

NextCons ==
    \/ \E m \in ConsumerModes : ConsSetMode(m)
    \/ ConsCloseCall
    \/ ConsCloseSwap
    \/ ConsCloseWait
    \/ ConsStart
    \/ \E size \in BatchSizes : ConsSetBatchSize(size)
    \/ \E period \in Periods : ConsSetTickerPeriod(period)
    \/ ConsCtxCancel
    \/ ConsTimeAdvance
    \/ ConsNewTicker
    \/ ConsExitClose
    \/ ConsExitCtx
    \/ \E v \in ConsumerMessages : BatchRecv(v)
    \/ \E v \in ConsumerMessages : TimeRecv(v)
    \/ TimeTick
    \/ \E v \in ConsumerMessages : HybridRecv(v)
    \/ HybridTick


(***************************************************************************)
(* Event generator: Events, Close and the emitter task.                    *)
(***************************************************************************)
\* the modes given to SetMode: mods and a value outside it
GeneratorModes == {"regular", "pick", "night", "other"}

\* eventTick: the numbers of events it can return in a mode
eventTick(mode) ==
    CASE mode = "regular" -> {0, 1}
      [] mode = "pick" -> pickLoadMinEvents..pickLoadMaxEvents
      [] mode = "night" -> {0, 1}
      [] OTHER -> {0}

\* the state NewEventGenerator returns
InitGen ==
    /\ g_mode = defaultGeneratorMode
    /\ g_stopCh = FALSE
    /\ g_eventCh = FALSE
    /\ g_panic = FALSE
    /\ g_epc = "none"
    /\ g_left = 0
    /\ g_tick = FALSE
    /\ g_after = 0
    /\ g_cons = "none"
    /\ g_closes = 0

\* SetMode(mode): a mode outside mods is logged and stored all the same
GenSetMode(mode) ==
    /\ ~g_panic
    /\ g_mode # mode
    /\ g_mode' = mode
    /\ UNCHANGED <<g_stopCh, g_eventCh, g_panic, g_epc, g_left, g_tick, g_after,
                   g_cons, g_closes, fvars, dvars, pvars, bvars, mvars, rvars, cvars, wvars, xvars, evars>>

\* Events(): start the emitter task and return eventCh, which the caller
\* ranges over
GenEvents ==
    /\ ~g_panic
    /\ g_epc = "none"
    /\ g_epc' = "select"
    /\ g_cons' = "ranging"
    /\ UNCHANGED <<g_mode, g_stopCh, g_eventCh, g_panic, g_left, g_tick, g_after,
                   g_closes, fvars, dvars, pvars, bvars, mvars, rvars, cvars, wvars, xvars, evars>>

\* Close(): close(g.stopCh), which panics on a closed channel
GenClose ==
    /\ ~g_panic
    /\ g_closes < MaxGenClose
    /\ g_closes' = g_closes + 1
    /\ IF g_stopCh
       THEN g_panic' = TRUE /\ UNCHANGED g_stopCh
       ELSE g_stopCh' = TRUE /\ UNCHANGED g_panic
    /\ UNCHANGED <<g_mode, g_eventCh, g_epc, g_left, g_tick, g_after, g_cons,
                   fvars, dvars, pvars, bvars, mvars, rvars, cvars, wvars, xvars, evars>>

\* the task that ranges over the channel stops receiving
GenReaderLeaves ==
    /\ ~g_panic
    /\ g_cons = "ranging"
    /\ g_cons' = "gone"
    /\ UNCHANGED <<g_mode, g_stopCh, g_eventCh, g_panic, g_epc, g_left, g_tick,
                   g_after, g_closes, fvars, dvars, pvars, bvars, mvars, rvars, cvars, wvars, xvars, evars>>

\* tickDuration passes: the emitter's ticker puts a tick in its channel,
\* which holds at most one
GenTickerFires ==
    /\ ~g_panic
    /\ g_epc \in {"select", "send"}
    /\ ~g_tick
    /\ g_tick' = TRUE
    /\ UNCHANGED <<g_mode, g_stopCh, g_eventCh, g_panic, g_epc, g_left, g_after,
                   g_cons, g_closes, fvars, dvars, pvars, bvars, mvars, rvars, cvars, wvars, xvars, evars>>

\* emitter select, case <-g.stopCh: close(g.eventCh); return (ticker.Stop)
EmitStop ==
    /\ ~g_panic
    /\ g_epc = "select"
    /\ g_stopCh
    /\ g_eventCh' = TRUE
    /\ g_epc' = "exit"
    /\ g_tick' = FALSE
    /\ UNCHANGED <<g_mode, g_stopCh, g_panic, g_left, g_after, g_cons, g_closes,
                   fvars, dvars, pvars, bvars, mvars, rvars, cvars, wvars, xvars, evars>>

\* emitter select, case <-ticker.C: for range g.eventTick(), n events to send
EmitTick(n) ==
    /\ ~g_panic
    /\ g_epc = "select"
    /\ g_tick
    /\ g_tick' = FALSE
    /\ g_left' = n
    /\ g_epc' = IF n > 0 THEN "send" ELSE "select"
    /\ g_after' = IF g_stopCh /\ g_after < 2 THEN g_after + 1 ELSE g_after
    /\ UNCHANGED <<g_mode, g_stopCh, g_eventCh, g_panic, g_cons, g_closes,
                   fvars, dvars, pvars, bvars, mvars, rvars, cvars, wvars, xvars, evars>>

\* emitter: g.eventCh <- g.event(), a send on an unbuffered channel that
\* completes when the reader receives
EmitSend ==
    /\ ~g_panic
    /\ g_epc = "send"
    /\ g_cons = "ranging"
    /\ g_left' = g_left - 1
    /\ g_epc' = IF g_left = 1 THEN "select" ELSE "send"
    /\ UNCHANGED <<g_mode, g_stopCh, g_eventCh, g_panic, g_tick, g_after, g_cons,
                   g_closes, fvars, dvars, pvars, bvars, mvars, rvars, cvars, wvars, xvars, evars>>

NextGen ==
    \/ \E mode \in GeneratorModes : GenSetMode(mode)
    \/ GenEvents
    \/ GenClose
    \/ GenReaderLeaves
    \/ GenTickerFires
    \/ EmitStop
    \/ \E n \in eventTick(g_mode) : EmitTick(n)
    \/ EmitSend


(***************************************************************************)
(* main: the wiring of generator, publisher, partitioner, batchers and     *)
(* broker connections, and the deferred calls that run when main returns.  *)
(***************************************************************************)
Partitions == 0..(kafkaPartitionCount - 1)
MainWorkers == 1..NMainWorkers

\* the state when main enters 'for ev := range gen.Events()': one connection
\* and one batcher per partition, the partitioner in round-robin mode with
\* its cursor at 0, the publisher's workers in their select
InitMain ==
    /\ w_pc = "loop"
    /\ w_sent = 0
    /\ w_queue = 0
    /\ w_rr = 0
    /\ w_buf = [p \in Partitions |-> 0]
    /\ w_wpc = [w \in MainWorkers |-> "select"]
    /\ w_wpart = [w \in MainWorkers |-> 0]
    /\ w_pubClosed = FALSE
    /\ w_conn = [p \in Partitions |-> "open"]
    /\ w_ci = 0
    /\ w_batClosed = [p \in Partitions |-> FALSE]
    /\ w_genClosed = FALSE

\* the loop body: pub.SendAsync(ctx, ev.Event, callback), a send on the
\* FIFO of publisherBufferAsyncMessageSize slots
MainSendAsync ==
    /\ w_pc = "loop"
    /\ w_sent < MaxMainEvents
    /\ w_queue < publisherBufferAsyncMessageSize
    /\ w_sent' = w_sent + 1
    /\ w_queue' = w_queue + 1
    /\ UNCHANGED <<w_pc, w_rr, w_buf, w_wpc, w_wpart, w_pubClosed, w_conn, w_ci,
                   w_batClosed, w_genClosed, fvars, dvars, pvars, bvars, mvars,
                   rvars, cvars, gvars, xvars, evars>>

\* a publisher worker: case m := <-w.asyncMessagesCh
MainWorkerRecv(w) ==
    /\ w_wpc[w] = "select"
    /\ w_queue > 0
    /\ w_queue' = w_queue - 1
    /\ w_wpc' = [w_wpc EXCEPT ![w] = "write"]
    /\ UNCHANGED <<w_pc, w_sent, w_rr, w_buf, w_wpart, w_pubClosed, w_conn, w_ci,
                   w_batClosed, w_genClosed, fvars, dvars, pvars, bvars, mvars,
                   rvars, cvars, gvars, xvars, evars>>

\* the worker's write enters part.WriteFn: index := config.rr.Load(), under
\* the mutex of the RRCircle, which Load releases before it returns
MainWorkerChoose(w) ==
    /\ w_wpc[w] = "write"
    /\ w_wpart' = [w_wpart EXCEPT ![w] = w_rr]
    /\ w_rr' = IF w_rr = kafkaPartitionCount - 1 THEN 0 ELSE w_rr + 1
    /\ w_wpc' = [w_wpc EXCEPT ![w] = "push"]
    /\ UNCHANGED <<w_pc, w_sent, w_queue, w_buf, w_pubClosed, w_conn, w_ci,
                   w_batClosed, w_genClosed, fvars, dvars, pvars, bvars, mvars,
                   rvars, cvars, gvars, xvars, evars>>

\* partitionBatchers[partition].Push buffers the envelope and the worker is
\* back at its select
MainWorkerPush(w) ==
    /\ w_wpc[w] = "push"
    /\ w_buf' = [w_buf EXCEPT ![w_wpart[w]] = @ + 1]
    /\ w_wpc' = [w_wpc EXCEPT ![w] = "select"]
    /\ UNCHANGED <<w_pc, w_sent, w_queue, w_rr, w_wpart, w_pubClosed, w_conn, w_ci,
                   w_batClosed, w_genClosed, fvars, dvars, pvars, bvars, mvars,
                   rvars, cvars, gvars, xvars, evars>>

\* a publisher worker: case <-w.closeCh, after pub.Close() closed it
MainWorkerExit(w) ==
    /\ w_pc = "pubClose"
    /\ w_wpc[w] = "select"
    /\ w_wpc' = [w_wpc EXCEPT ![w] = "exit"]
    /\ UNCHANGED <<w_pc, w_sent, w_queue, w_rr, w_buf, w_wpart, w_pubClosed, w_conn,
                   w_ci, w_batClosed, w_genClosed, fvars, dvars, pvars, bvars, mvars,
                   rvars, cvars, gvars, xvars, evars>>

\* the range over gen.Events() ends, main returns and its deferred calls
\* run, last deferred first, starting with pub.Close(), which closes
\* closeCh.  The range ends when the events channel is closed, which the
\* emitter does after gen.Close(); main calls gen.Close() only as its last
\* deferred call
MainLoopEnd ==
    /\ w_pc = "loop"
    /\ w_genClosed
    /\ w_pc' = "pubClose"
    /\ UNCHANGED <<w_sent, w_queue, w_rr, w_buf, w_wpc, w_wpart, w_pubClosed, w_conn,
                   w_ci, w_batClosed, w_genClosed, fvars, dvars, pvars, bvars, mvars,
                   rvars, cvars, gvars, xvars, evars>>

\* deferred: pub.Close() returns when every worker has returned
MainPubClose ==
    /\ w_pc = "pubClose"
    /\ \A w \in MainWorkers : w_wpc[w] = "exit"
    /\ w_pubClosed' = TRUE
    /\ w_pc' = "connClose"
    /\ UNCHANGED <<w_sent, w_queue, w_rr, w_buf, w_wpc, w_wpart, w_conn, w_ci,
                   w_batClosed, w_genClosed, fvars, dvars, pvars, bvars, mvars,
                   rvars, cvars, gvars, xvars, evars>>

\* deferred: for _, conn := range partitionConnections { conn.Close() }
MainConnClose ==
    /\ w_pc = "connClose"
    /\ w_ci < kafkaPartitionCount
    /\ w_conn' = [w_conn EXCEPT ![w_ci] = "closed"]
    /\ w_ci' = w_ci + 1
    /\ UNCHANGED <<w_pc, w_sent, w_queue, w_rr, w_buf, w_wpc, w_wpart, w_pubClosed,
                   w_batClosed, w_genClosed, fvars, dvars, pvars, bvars, mvars,
                   rvars, cvars, gvars, xvars, evars>>

\* deferred: gen.Close(), the first defer of main and the last to run
MainGenClose ==
    /\ w_pc = "connClose"
    /\ w_ci = kafkaPartitionCount
    /\ w_genClosed' = TRUE
    /\ w_pc' = "returned"
    /\ UNCHANGED <<w_sent, w_queue, w_rr, w_buf, w_wpc, w_wpart, w_pubClosed, w_conn,
                   w_ci, w_batClosed, fvars, dvars, pvars, bvars, mvars, rvars,
                   cvars, gvars, xvars, evars>>

NextMain ==
    \/ MainSendAsync
    \/ \E w \in MainWorkers : MainWorkerRecv(w)
    \/ \E w \in MainWorkers : MainWorkerChoose(w)
    \/ \E w \in MainWorkers : MainWorkerPush(w)
    \/ \E w \in MainWorkers : MainWorkerExit(w)
    \/ MainLoopEnd
    \/ MainPubClose
    \/ MainConnClose
    \/ MainGenClose


(***************************************************************************)
(* Event generator: event(), getValidEvent and getInvalidEvent.  A page or *)
(* user id is "uuid" (uuid.NewString() is never empty), a user agent is   *)
(* "agent" (one of agents) or "0xfffefd" (the three invalid bytes).        *)
(***************************************************************************)
\* the values given to SetDurationMax
DurationMaxes == 0..MaxDuration

\* mrand.Intn(n): a number of [0, n); it panics for n <= 0
Intn(n) == 0..(n - 1)

defects == <<emptyPageIDDefect, negativeDurationDefect, invalidJSONDefect>>

NoEvent == [Meta |-> "none"]

\* getValidEvent(duration, isBounce)
getValidEvent(duration, isBounce) ==
    [Event |-> [PageID |-> "uuid", UserID |-> "uuid", ViewDuration |-> duration,
                UserAgent |-> "agent", IsBounce |-> isBounce],
     Meta |-> [IsInvalid |-> FALSE]]

\* a getInvalidEvent whose negative duration comes with an empty page id
getInvalidEvent_two(defectType, n) ==
    [Event |->
        [PageID |-> IF defectType \in {emptyPageIDDefect, negativeDurationDefect}
                    THEN "" ELSE "uuid",
         UserID |-> "uuid",
         ViewDuration |-> IF defectType = negativeDurationDefect THEN -(n + 1) ELSE n + 1,
         UserAgent |-> IF defectType = invalidJSONDefect THEN "0xfffefd" ELSE "agent",
         IsBounce |-> FALSE],
     Meta |-> [IsInvalid |-> TRUE]]

\* getInvalidEvent with defectType = mrand.Intn(len(defects)) and n the
\* result of its mrand.Intn(g.durationMax)
getInvalidEvent(defectType, n) ==
    [Event |->
        [PageID |-> IF defectType = emptyPageIDDefect THEN "" ELSE "uuid",
         UserID |-> "uuid",
         ViewDuration |-> IF defectType = negativeDurationDefect THEN -(n + 1) ELSE n + 1,
         UserAgent |-> IF defectType = invalidJSONDefect THEN "0xfffefd" ELSE "agent",
         IsBounce |-> FALSE],
     Meta |-> [IsInvalid |-> TRUE]]

\* NewEventGenerator: durationMax is defaultDurationMax
InitEvent ==
    /\ e_durationMax = defaultDurationMax
    /\ e_event = NoEvent
    /\ e_panic = FALSE

\* SetDurationMax(value)
SetDurationMax(value) ==
    /\ ~e_panic
    /\ e_durationMax' = value
    /\ UNCHANGED <<e_event, e_panic, fvars, dvars, pvars, bvars, mvars, rvars, cvars,
                   gvars, wvars, xvars>>

\* event() with durationMax <= 0: mrand.Intn panics
EventPanic ==
    /\ ~e_panic
    /\ e_durationMax <= 0
    /\ e_panic' = TRUE
    /\ UNCHANGED <<e_durationMax, e_event, fvars, dvars, pvars, bvars, mvars, rvars,
                   cvars, gvars, wvars, xvars>>

\* event(): duration := mrand.Intn(durationMax) + 1; the bounce flag is drawn
\* only for duration >= bounceMax; isInvalid is drawn; an invalid event draws
\* its defect and its own duration
GenEvent ==
    /\ ~e_panic
    /\ e_durationMax > 0
    /\ \E isInvalid \in BOOLEAN :
          IF isInvalid
          THEN \E defectType \in Intn(Len(defects)), k \in Intn(e_durationMax) :
                   e_event' = getInvalidEvent(defects[defectType + 1], k)
          ELSE \E n \in Intn(e_durationMax), bounceDraw \in BOOLEAN :
                   LET duration == n + 1
                       isBounce == IF duration < bounceMax THEN FALSE ELSE bounceDraw
                   IN e_event' = getValidEvent(duration, isBounce)
    /\ UNCHANGED <<e_durationMax, e_panic, fvars, dvars, pvars, bvars, mvars, rvars,
                   cvars, gvars, wvars, xvars>>

NextEvent ==
    \/ \E value \in DurationMaxes : SetDurationMax(value)
    \/ EventPanic
    \/ GenEvent

Init ==
    /\ InitFlush /\ InitPub /\ InitBat /\ InitMerge /\ InitPart /\ InitCons /\ InitGen
    /\ InitMain /\ InitIn /\ InitEvent

SpecFlush == Init /\ [][NextFlush]_vars

SpecPub == Init /\ [][NextPub]_vars

SpecBat == Init /\ [][NextBat]_vars

SpecMerge == Init /\ [][NextMerge]_vars

SpecPart == Init /\ [][NextPart]_vars

SpecCons == Init /\ [][NextCons]_vars

\* the tasks of the batcher that the Go scheduler runs whenever they can
\* take a step: a Push past its stopped check, a ticker task, a call of the
\* owning task that has begun
PusherStep(p) == PushLock(p) \/ PushBody(p) \/ PushSpawn(p)
TickerStep(t) ==
    t \in DOMAIN b_tpc /\ (TickerStop(t) \/ TickerTake(t) \/ TickerFlush(t))
OwnerStep ==
    \/ CloseSwap
    \/ CloseTime
    \/ CloseWait
    \/ CloseSizeLock
    \/ CloseSizeTake
    \/ CloseSizeFlush
    \/ Start


\* the pusher of the runs in which submission contexts are cancelled
CtxPushers == {p \in Pushers : p = 1}

\* the batcher with a caller that cancels the contexts it submitted
NextBatCtx ==
    \/ \E p \in CtxPushers : PushCheck(p)
    \/ \E p \in CtxPushers : PushLock(p)
    \/ \E p \in CtxPushers : PushBody(p)
    \/ \E p \in CtxPushers : PushSpawn(p)
    \/ \E t \in DOMAIN b_tpc : TickerTick(t)
    \/ \E t \in DOMAIN b_tpc : TickerStop(t)
    \/ \E t \in DOMAIN b_tpc : TickerTake(t)
    \/ \E t \in DOMAIN b_tpc : TickerFlush(t)
    \/ \E n \in FlushSizes : SetFlushSize(n)
    \/ \E m \in Modes : SetMode(m)
    \/ CloseCall
    \/ CloseSwap
    \/ CloseTime
    \/ CloseWait
    \/ CloseSizeLock
    \/ CloseSizeTake
    \/ CloseSizeFlush
    \/ Start
    \/ \E i \in DOMAIN b_push : BatCtxCancel(i)

SpecBatCtx == Init /\ [][NextBatCtx]_vars


SpecMain == Init /\ [][NextMain]_vars


SpecConsIn == Init /\ [][NextConsIn]_vars

\* every started task of the consumer keeps running: the owner inside Close
\* or SetMode, the processing task and the proxy; producers and the holders
\* of the context are free to act or not
SpecConsInFair ==
    Init /\ [][NextConsIn]_vars
        /\ WF_vars(ConsCloseSwap \/ ConsCloseWait \/ ConsStart)
        /\ WF_vars(ConsNewTicker \/ ConsExitClose \/ ConsExitCtx)
        /\ WF_vars(ProxyExitClose \/ ProxyExitCtx \/ ProxySend)


SpecEvent == Init /\ [][NextEvent]_vars


\* the Go scheduler runs every task that can take a step: a sender whose
\* channel send has room, a worker whose select has a ready case or whose
\* write is in progress, the task that closes workersFinished, and Close
\* once workersFinished is closed; callers are under no obligation
SpecPubFair ==
    /\ Init
    /\ [][NextPub]_vars
    /\ \A s \in Senders : WF_vars(SendAsyncEnqueue(s) \/ \E ok \in BOOLEAN : SendSyncWrite(s, ok))
    /\ \A w \in Workers :
          WF_vars(WorkerRecv(w) \/ WorkerExitClose(w) \/ WorkerExitCtx(w)
                      \/ \E ok \in BOOLEAN : WorkerWrite(w, ok))
    /\ WF_vars(WorkersFinished \/ PubCloseReturn)

\* a ticker delivers its tick at every period, so a ticker task waiting in
\* its select is not passed over forever: strong fairness of the tick case
SpecBatFair ==
    /\ Init
    /\ [][NextBat]_vars
    /\ \A p \in Pushers : WF_vars(PusherStep(p))
    /\ \A t \in 1..MaxOps : WF_vars(TickerStep(t))
    /\ \A t \in 1..MaxOps : SF_vars(t \in DOMAIN b_tpc /\ TickerTick(t))
    /\ WF_vars(OwnerStep)

SpecGen == Init /\ [][NextGen]_vars

\* the scheduler runs the emitter whenever it can take a step, the ticker
\* keeps firing, and a select that is entered again and again with stopCh
\* closed takes that case in the end (strong fairness of EmitStop)
SpecGenFair ==
    /\ Init
    /\ [][NextGen]_vars
    /\ WF_vars(GenTickerFires)
    /\ WF_vars(\E n \in eventTick(g_mode) : EmitTick(n))
    /\ WF_vars(EmitSend)
    /\ SF_vars(EmitStop)

\* the Go scheduler runs every task that can take a step: a watcher whose
\* select has a ready case, the waiting task once result is closed
SpecMergeFair ==
    /\ Init
    /\ [][NextMerge]_vars
    /\ \A w \in 1..(2 * MaxInputs + 2) : WF_vars(WatcherStep(w))
    /\ WF_vars(WaiterStep)

(***************************************************************************)
(* Properties.                                                             *)
(***************************************************************************)
\* the envelope ids handed to flushFn so far
FlushPositions == {<<k, j>> : k \in DOMAIN b_flushes, j \in 1..MaxPush}
FlushedAt == {x \in FlushPositions : x[2] <= Len(b_flushes[x[1]].batch)}
FlushedIds == {b_flushes[x[1]].batch[x[2]] : x \in FlushedAt}
BufferIds == {b_buffer[j] : j \in DOMAIN b_buffer}
QueuedIds == {p_queue[j] : j \in DOMAIN p_queue}

\* C1 (SpecPub): when Publisher.Close returns nil, every message whose
\* SendAsync returned nil with a non-nil callback has had its callback
\* invoked exactly once, messages still queued at Close included.
C1_CallbacksDoneWhenCloseReturns ==
    [][(PubCloseReturn /\ ~p_ctxDone) =>
         \A m \in PubMsgs :
            (p_msgs[m].kind = "async" /\ p_msgs[m].ret = "nil" /\ p_msgs[m].cb)
                => Len(p_cbW'[m]) + p_cbF'[m] = 1]_vars

\* C2 (SpecFlush): in a flush every envelope with a callback has the
\* callback invoked exactly once, whatever the number of attempts, and not
\* while the dispatcher may still make another attempt.
C2_CallbackOncePerFlush ==
    \A i \in DOMAIN f_batch :
        f_batch[i].cb =>
            /\ d_pc = "done" => Len(f_cb[i]) = 1
            /\ d_pc # "done" => Len(f_cb[i]) = 0

\* C3 (SpecBat): an envelope accepted by Push appears in at most one batch
\* handed to the flush function, and at most once in that batch.
C3_NoEnvelopeFlushedTwice ==
    \A x, y \in FlushedAt :
        x # y => b_flushes[x[1]].batch[x[2]] # b_flushes[y[1]].batch[y[2]]

\* C3 witness: a Push-triggered flush and a tick-triggered flush both happened
C3_Witness ==
    /\ \E k \in DOMAIN b_flushes : b_flushes[k].by = "push"
    /\ \E k \in DOMAIN b_flushes : b_flushes[k].by = "tick"

\* C4 (SpecBat): once Close has returned, every envelope whose Push returned
\* nil has been handed to the flush function and the buffer is empty.
C4_CloseLeavesNothingBehind ==
    (b_cpc = "idle" /\ b_cop = "Close" /\ ~b_panic) =>
        /\ b_buffer = <<>>
        /\ \A i \in DOMAIN b_push : b_push[i].ret = "nil" => i \in FlushedIds

\* C5 (SpecBat): in size mode with a fixed flush size N every flush triggered
\* by Push has exactly N envelopes; only the flush of Close may have fewer,
\* and it is the last flush (no flushed batch was taken from the buffer
\* after it).
C5_SizeModeBatchLengths ==
    (~b_reconf) =>
        \A k \in DOMAIN b_flushes :
            /\ b_flushes[k].by = "push" => Len(b_flushes[k].batch) = b_flushSize
            /\ Len(b_flushes[k].batch) < b_flushSize =>
                   /\ b_flushes[k].by = "close"
                   /\ \A j \in DOMAIN b_flushes : b_flushes[j].seq <= b_flushes[k].seq

\* C6 (SpecPub): a SendAsync or SendSync call that begins after Close set the
\* closed flag returns ErrClosed, enqueues nothing and does not invoke write.
C6_ClosedRejects ==
    \A m \in PubMsgs :
        p_msgs[m].afterClosed =>
            /\ p_msgs[m].ret = "ErrClosed"
            /\ m \notin QueuedIds
            /\ \A s \in Senders : p_smsg[s] # m
            /\ \A w \in Workers : p_wmsg[w] # m
            /\ p_writes[m] = <<>>

\* C6 witness: an asynchronous and a synchronous call were both refused
C6_Witness ==
    /\ \E m \in PubMsgs : p_msgs[m].afterClosed /\ p_msgs[m].kind = "async"
                             /\ p_msgs[m].ret = "ErrClosed"
    /\ \E m \in PubMsgs : p_msgs[m].afterClosed /\ p_msgs[m].kind = "sync"
                             /\ p_msgs[m].ret = "ErrClosed"

\* C7 (SpecBat): a Push that begins after a Close call has returned returns
\* ErrBatchStopped, adds nothing to the buffer and causes no flush.
C7_PushAfterCloseRejected ==
    \A i \in DOMAIN b_push :
        b_push[i].afterClose =>
            /\ b_push[i].ret = "ErrBatchStopped"
            /\ i \notin BufferIds
            /\ i \notin FlushedIds

\* C8 (SpecBat): Close never panics, the stop channel is closed at most once
\* in the batcher's lifetime, and Close on a stopped batcher changes nothing.
C8_CloseSafe ==
    [][/\ ~b_panic'
       /\ b_chCloses' <= 1
       /\ (b_cpc = "close" /\ b_cop = "Close" /\ b_stopped /\ b_cpc' # b_cpc) =>
             (/\ b_cpc' = "idle"
              /\ UNCHANGED <<b_mode, b_flushSize, b_buffer, b_mutex, b_stopped,
                             b_stopCh, b_wg, b_tpc, b_tbatch, b_flushes>>)]_vars

\* C9 (SpecFlush): Dispatcher.Write invokes the closure at most 5 times and
\* never after an invocation that returned nil; if the n-th invocation is the
\* first to succeed, Write returns nil after exactly n invocations.
C9_AtMostKAttemptsStopOnSuccess ==
    /\ d_calls <= 5
    /\ \A n \in 1..Len(d_hist) : d_hist[n] = "ok" => n = Len(d_hist)
    /\ \A n \in 1..Len(d_hist) :
          (d_pc = "done" /\ d_hist[n] = "ok") => (d_result = "nil" /\ d_calls = n)

\* C9 witness: two failures and then a success, Write has returned nil
C9_Witness ==
    /\ d_pc = "done"
    /\ d_result = "nil"
    /\ d_hist = <<"fail", "fail", "ok">>

\* C10 (SpecFlush): with a parent context that is never cancelled and a
\* closure that fails every time, Write makes exactly 5 invocations and
\* returns ErrBackoffTimeout.
C10_ExhaustionReturnsBackoffTimeout ==
    (d_pc = "done" /\ ~d_ctxDone /\ \A n \in 1..Len(d_hist) : d_hist[n] = "fail") =>
        (d_calls = 5 /\ d_result = "ErrBackoffTimeout")

\* C10 witness: Write returned after five failed invocations, no cancellation
C10_Witness ==
    /\ d_pc = "done"
    /\ ~d_ctxDone
    /\ d_hist = <<"fail", "fail", "fail", "fail", "fail">>

\* C11 (SpecFlush): if the parent context is cancelled while an attempt is
\* running and that attempt fails, Write returns the context's cancellation
\* error, whichever of the attempts 0..4 was running, never ErrBackoffTimeout.
C11_CancelMidAttemptReturnsCtxErr ==
    (/\ d_pc = "done"
     /\ d_cancelAt >= 0
     /\ Len(d_hist) > d_cancelAt
     /\ d_hist[d_cancelAt + 1] = "fail") => d_result = "ctxErr"

\* some input of the Merge call is cancelled
InputCancelled == \E i \in DOMAIN m_inDone : m_inDone[i]

\* every task started by Merge has returned
MergeTasksExited ==
    /\ \A w \in Watchers : m_wpc[w] = "exit"
    /\ m_gpc = "exit"

\* C12 (SpecMergeFair): after Merge over N >= 1 inputs, once an input is
\* cancelled or the returned cancel function is invoked, the merged context
\* eventually becomes done.
C12_MergedEventuallyDone ==
    (m_n > 0 /\ (InputCancelled \/ m_cancelled)) ~> m_ctxDone

\* C12 witness: the merged context is done through the watcher of a
\* cancelled input, the cancel function was never invoked
C12_Witness ==
    /\ m_n > 0
    /\ InputCancelled
    /\ ~m_cancelled
    /\ m_ctxDone

\* C13 (SpecMerge): the merged context is never done while every input is
\* live and the returned cancel function has not been invoked, inputs with a
\* nil Done channel (background contexts) included.
C13_NoSpuriousCancel ==
    m_ctxDone => (InputCancelled \/ m_cancelled)

\* C13 witness: Merge over two background contexts has returned and the
\* merged context is live
C13_Witness ==
    /\ m_inKind = <<"background", "background">>
    /\ m_gpc = "wait"
    /\ ~m_cancelled
    /\ ~m_ctxDone

\* C14 (SpecMergeFair): after the merged context is done, every task that
\* Merge started (the watchers and the task waiting on the fan-in result)
\* eventually returns, even if the remaining inputs are never cancelled.
C14_TasksTerminate ==
    m_ctxDone ~> MergeTasksExited

\* C14 witness: every task has returned while a cancellable input is live
C14_Witness ==
    /\ m_ctxDone
    /\ MergeTasksExited
    /\ \E i \in DOMAIN m_inDone : m_inKind[i] = "cancellable" /\ ~m_inDone[i]

\* the calls that chose their index from record c and have not yet passed
\* it to the partition write function
InFlight(c) == {p \in Callers : r_cpc[p] = "indexed" /\ r_ccfg[p] = c}

\* number of calls that were given index i by record c, number of calls that
\* were given an index by it
TimesChosen(c, i) ==
    Cardinality({k \in DOMAIN r_configs[c].out : r_configs[c].out[k] = i})
        + Cardinality({p \in InFlight(c) : r_cidx[p] = i})
Choices(c) == Len(r_configs[c].out) + Cardinality(InFlight(c))

RoundRobinConfigs == {c \in DOMAIN r_configs : r_configs[c].mode = "round_robin"}

\* C15 (SpecPart): after SetRoundRobinMode(C), the k-th of the WriteFn calls
\* made one after another passes index k mod C to the partition write
\* function, counting from 0.
C15_RoundRobinSequence ==
    ~r_overlap =>
        \A c \in RoundRobinConfigs :
            \A k \in DOMAIN r_configs[c].out :
                r_configs[c].out[k] = (k - 1) % r_configs[c].count

\* C15 witness: after SetRoundRobinMode(2) three calls made one after
\* another passed 0, 1, 0
C15_Witness ==
    /\ ~r_overlap
    /\ \E c \in RoundRobinConfigs :
          r_configs[c].count = 2 /\ r_configs[c].out = <<0, 1, 0>>

\* C16 (SpecPart): for a round-robin configuration of C partitions and M
\* calls by concurrent callers, every index is chosen floor(M/C) or
\* ceil(M/C) times, and the cursor has advanced once per call.
C16_ConcurrentBalance ==
    \A c \in RoundRobinConfigs :
        LET C == r_configs[c].count
            M == Choices(c)
        IN  /\ \A i \in 0..(C - 1) :
                  TimesChosen(c, i) \in {M \div C, (M + C - 1) \div C}
            /\ \A k \in DOMAIN r_configs[c].out : r_configs[c].out[k] \in 0..(C - 1)
            /\ \A p \in InFlight(c) : r_cidx[p] \in 0..(C - 1)
            /\ r_configs[c].v = M % C

\* C16 witness: two calls hold different indexes of the same two-partition
\* round-robin configuration at the same time
C16_Witness ==
    \E c \in RoundRobinConfigs :
        /\ r_configs[c].count = 2
        /\ \E p, q \in InFlight(c) : r_cidx[p] = 0 /\ r_cidx[q] = 1

\* C17 (SpecPart): whatever the interleaving of WriteFn with the Set...Mode
\* calls, the index of a call lies in [0, count) for the count of the one
\* configuration record that call loaded.
C17_IndexWithinLoadedCount ==
    /\ \A c \in DOMAIN r_configs :
          \A k \in DOMAIN r_configs[c].out :
              0 <= r_configs[c].out[k] /\ r_configs[c].out[k] < r_configs[c].count
    /\ \A p \in Callers :
          r_cpc[p] = "indexed" =>
              0 <= r_cidx[p] /\ r_cidx[p] < r_configs[r_ccfg[p]].count

\* C17 witness: a call has chosen its index from a record that was replaced,
\* while it ran, by one with another count
C17_Witness ==
    \E p \in Callers :
        /\ r_cpc[p] = "indexed"
        /\ r_ccfg[p] # r_cur
        /\ r_configs[r_ccfg[p]].count # r_configs[r_cur].count

\* C18 (SpecPart): in key mode, for one count and extractor, two messages
\* with equal keys get the same partition index, whatever the order and
\* overlap of the calls.
C18_EqualKeysSamePartition ==
    \A c \in DOMAIN r_configs :
        \A a, b \in r_configs[c].keyed :
            keyFn(r_configs[c].keyFn, a.message) = keyFn(r_configs[c].keyFn, b.message)
                => a.index = b.index

\* C18 witness: two different messages with the same key went through a
\* key-mode configuration of two partitions, in overlapping calls
C18_Witness ==
    /\ r_overlap
    /\ \E c \in DOMAIN r_configs :
          /\ r_configs[c].mode = "key"
          /\ r_configs[c].count = 2
          /\ Cardinality(r_configs[c].keyed) = 2

\* C19 (SpecPart): SetRandomMode, SetRoundRobinMode and SetKeyMode return
\* ErrInvalidCount for count <= 0, SetKeyMode returns ErrInvalidKey for
\* count > 0 and a nil extractor, and a call that returns an error leaves
\* the configuration, the round-robin cursor included, as it was.
C19_InvalidArgsRejected ==
    [][\A count \in Counts :
          /\ (count <= 0 /\ (\/ SetRandomMode(count)
                             \/ SetRoundRobinMode(count)
                             \/ \E fn \in KeyFns : SetKeyMode(fn, count)))
                => (r_ret' = "ErrInvalidCount" /\ UNCHANGED <<r_configs, r_cur>>)
          /\ (count > 0 /\ SetKeyMode("nil", count))
                => (r_ret' = "ErrInvalidKey" /\ UNCHANGED <<r_configs, r_cur>>)]_vars

\* C19 witness: a Set...Mode call was rejected for its count while the
\* cursor of the two-partition round-robin configuration stood at 1
C19_Witness ==
    /\ r_ret = "ErrInvalidCount"
    /\ r_configs[r_cur].mode = "round_robin"
    /\ r_configs[r_cur].count = 2
    /\ r_configs[r_cur].v = 1

\* the messages a worker has dequeued and is done with
WorkerHandled ==
    {m \in PubMsgs : /\ p_msgs[m].kind = "async"
                     /\ p_msgs[m].ret = "nil"
                     /\ m \notin QueuedIds
                     /\ \A w \in Workers : p_wmsg[w] # m}

\* C20 (SpecPub): for each message a worker dequeues it invokes write
\* exactly once, and it invokes the callback itself exactly when write
\* returned an error and the callback is not nil, then once, for that
\* message and with that error; after a nil result it never does.
C20_WorkerWriteOnceCallbackOnError ==
    \A m \in PubMsgs :
        p_msgs[m].kind = "async" =>
            /\ Len(p_writes[m]) <= 1
            /\ m \in WorkerHandled => Len(p_writes[m]) = 1
            /\ p_cbW[m] = IF p_writes[m] = <<"writeErr">> /\ p_msgs[m].cb
                          THEN <<"writeErr">>
                          ELSE <<>>

\* C20 witness: workers have handled a message whose write failed and one
\* whose write succeeded, both submitted with a callback
C20_Witness ==
    \E m, n \in WorkerHandled :
        /\ p_msgs[m].cb /\ p_writes[m] = <<"writeErr">> /\ p_cbW[m] = <<"writeErr">>
        /\ p_msgs[n].cb /\ p_writes[n] = <<"nil">> /\ p_cbW[n] = <<>>


\* C21: a SendAsync that passed the closed check is blocked exactly when the
\* FIFO holds BufferCap messages, whatever the workers are doing (it never
\* waits for a write); the FIFO never holds more than BufferCap messages.
C21_SendAsyncBlocksIffFull ==
    /\ Len(p_queue) <= BufferCap
    /\ \A s \in Senders :
          p_spc[s] = "enqueue" =>
              ((ENABLED SendAsyncEnqueue(s)) <=> (Len(p_queue) < BufferCap))

\* one SendAsync returned nil before any write of its message, another is
\* blocked on the full FIFO
C21_Witness ==
    /\ Len(p_queue) = BufferCap
    /\ \E s \in Senders : p_spc[s] = "enqueue" /\ ~ENABLED SendAsyncEnqueue(s)
    /\ \E m \in PubMsgs :
          /\ p_msgs[m].kind = "async"
          /\ p_msgs[m].ret = "nil"
          /\ p_writes[m] = <<>>


\* C22: a Close call made after an earlier Close call has returned returns no
\* error (and, the close signal having been issued, neither closes closeCh
\* again nor waits).
C22_SecondCloseNoError ==
    \A i \in 1..Len(p_closeRets) : p_closeRets[i] = "nil"


\* C23: a Push that finds the batcher in time mode appends its message and
\* returns without a flush, whatever the buffer length; a ticker tick hands
\* the whole buffer to one flushFn invocation and leaves the buffer empty,
\* and on an empty buffer invokes nothing.
C23_TimeModeFlushOnlyOnTick ==
    [][/\ \A p \in Pushers :
             (PushBody(p) /\ b_mode = "time") =>
                 /\ b_buffer' = Append(b_buffer, b_pmsg[p])
                 /\ b_ppc'[p] = "idle"
                 /\ b_flushes' = b_flushes
       /\ \A t \in DOMAIN b_tpc :
             /\ (TickerTake(t) /\ b_tpc[t] = "tick") =>
                    /\ b_buffer' = <<>>
                    /\ b_tbatch'[t].batch = b_buffer
                    /\ b_flushes' = b_flushes
             /\ (TickerFlush(t) /\ b_tpc[t] = "tickflush") =>
                    IF b_tbatch[t].batch = <<>>
                    THEN b_flushes' = b_flushes
                    ELSE /\ Len(b_flushes') = Len(b_flushes) + 1
                         /\ SubSeq(b_flushes', 1, Len(b_flushes)) = b_flushes
                         /\ b_flushes'[Len(b_flushes')].batch = b_tbatch[t].batch
                         /\ b_flushes'[Len(b_flushes')].by = "tick"]_vars

\* in time mode a Push returned leaving a full buffer behind, and a tick
\* flushed a buffer of two messages in one call
C23_Witness ==
    /\ \E i \in DOMAIN b_push : b_push[i].held /\ b_push[i].ret = "nil"
    /\ \E j \in DOMAIN b_flushes :
          b_flushes[j].by = "tick" /\ Len(b_flushes[j].batch) >= 2


\* C24: in hybrid mode a tick flushes a non-empty buffer and so does the
\* message that brings the buffer to batchSize; that message also resets
\* the ticker (no tick is left waiting, the next one is a full period away),
\* so a tick that flushes comes at least the period given to Reset after
\* the last size-triggered flush of the same processing task.
C24_HybridFlushAndTickerReset ==
    [][/\ (HybridTick /\ c_buffer # <<>>) =>
             /\ c_buffer' = <<>>
             /\ c_flush' = [by |-> "tick", run |-> c_run]
             /\ c_lastSize.run = c_run => c_lastSize.age >= c_lastSize.period
       /\ \A v \in ConsumerMessages :
             (HybridRecv(v) /\ Len(c_buffer) + 1 >= c_batchSize) =>
                 /\ c_buffer' = <<>>
                 /\ c_flush' = [by |-> "size", run |-> c_run]
                 /\ ~c_tick'
                 /\ c_left' = c_period]_vars

\* one hybrid processing task has flushed at the batch size and, later, on
\* a tick
C24_Witness ==
    /\ c_kind = "hybrid"
    /\ c_lastSize.run = c_run
    /\ c_flush = [by |-> "tick", run |-> c_run]


\* the Push of message i returned nil and left the message in the buffer of
\* a batcher whose owner has made one call, SetMode(TimeMode), which returned
PushedInTimeMode(i) ==
    /\ b_ops = 1
    /\ b_cop = "SetMode"
    /\ b_cpc = "idle"
    /\ b_mode = "time"
    /\ i \in DOMAIN b_push
    /\ b_push[i].ret = "nil"
    /\ \E j \in DOMAIN b_buffer : b_buffer[j] = i

\* message i has been handed to flushFn by the tick case of a ticker task
FlushedByTick(i) ==
    \E k \in DOMAIN b_flushes :
        /\ b_flushes[k].by = "tick"
        /\ \E j \in DOMAIN b_flushes[k].batch : b_flushes[k].batch[j] = i

\* C25: after SetMode(TimeMode) on a new batcher, while the owner makes no
\* further call, a ticker task is running and every message pushed is
\* eventually handed to flushFn by a tick.
C25_TimeModeTickFlushes ==
    \A i \in 1..MaxPush :
        /\ [](PushedInTimeMode(i) => \E t \in DOMAIN b_tpc : b_tpc[t] # "exit")
        /\ PushedInTimeMode(i) ~> (FlushedByTick(i) \/ b_ops > 1)


\* C26: once Close has been called the emitter task eventually returns and
\* the events channel is closed, whether or not the channel is being read,
\* and the emitter takes at most one more tick before that.
C26_CloseStopsEmitter ==
    /\ (g_stopCh /\ g_epc # "none" /\ ~g_panic) ~> (g_epc = "exit" /\ g_eventCh)
    /\ [](g_after <= 1)


\* C27: no task invokes flushFn while it holds the buffer mutex, on the Push,
\* ticker and Close paths; the holder of the mutex is always a task inside
\* one of the short critical sections, never one that is inside flushFn, so
\* a Push waiting for the mutex does not wait for a flush.
C27_FlushOutsideMutex ==
    [][/\ \A p \in Pushers : PushSpawn(p) => b_mutex # PushTask(p)
       /\ \A t \in DOMAIN b_tpc :
             (TickerFlush(t) /\ b_flushes' # b_flushes) => b_mutex # TickTask(t)
       /\ CloseSizeFlush => b_mutex # OwnerTask
       /\ \A p \in Pushers : b_mutex = PushTask(p) => b_ppc[p] = "body"
       /\ \A t \in DOMAIN b_tpc : b_mutex = TickTask(t) => b_tpc[t] \in {"tick", "stop"}
       /\ b_mutex = OwnerTask => b_cpc = "locked"]_vars

\* flushFn has been invoked, the batch taken by one Push is still to be
\* handed to flushFn, and meanwhile another Push holds the mutex
C27_Witness ==
    \E p, q \in Pushers :
        /\ b_ppc[p] = "spawn"
        /\ b_mutex = PushTask(q)
        /\ b_flushes # <<>>


\* C28: when the dispatcher call of the flush routine ends in failure
\* (ErrBackoffTimeout or the cancellation error of the merged context), every
\* envelope that serialized and has a callback has received that final
\* dispatcher error through its callback, so none is left unacknowledged.
C28_FinalErrorReachesCallbacks ==
    (d_pc = "done" /\ d_result \in {"ErrBackoffTimeout", "ctxErr"}) =>
        \A i \in DOMAIN f_batch :
            (f_batch[i].cb /\ f_batch[i].ser) =>
                \E k \in DOMAIN f_cb[i] : f_cb[i][k] = d_result


\* C29: the record vector handed to the broker write holds exactly one record
\* per envelope that serialized, in buffer-insertion order, and nothing (no
\* empty placeholder record) for an envelope whose serialization failed.
C29_OnlyValidRecordsWritten ==
    d_hist # <<>> => f_records = validMessages(f_batch)


\* C30: no attempt is started once the parent context is cancelled outside an
\* attempt (before Write is called, or between two attempts): no attempt
\* begins and the closure is not invoked again; and when the context was
\* already cancelled before the first attempt Write returns the context's
\* error with zero closure invocations.
C30_NoAttemptAfterCancel ==
    [][/\ (d_ctxDone /\ d_cancelAt = -1) => (d_pc' # "attempt" /\ d_hist' = d_hist)
       /\ (d_pc' = "done" /\ d_ctxDone' /\ d_cancelAt' = -1 /\ d_hist' = <<>>)
             => d_result' = "ctxErr"]_vars

\* the context was cancelled between two attempts, after a failed one, and
\* Write has returned the context's error without a further invocation
C30_Witness ==
    /\ d_pc = "done"
    /\ d_result = "ctxErr"
    /\ d_cancelAt = -1
    /\ d_calls >= 1
    /\ d_calls < backoffAttemptCount


RECURSIVE Pow(_, _)
Pow(b, n) == IF n = 0 THEN 1 ELSE b * Pow(b, n - 1)

\* startBackoffTimeout * 1.2^i, in microseconds (exact for i <= 6)
TimeoutOfAttempt(i) == (startBackoffTimeout \div Pow(10, i)) * Pow(12, i)

\* C31: within one Write the per-attempt timeout starts at 1 s and is
\* multiplied by 1.2 after every failed attempt and only then: attempt i runs
\* under timeout 1 s * 1.2^i, and the timeout never shrinks or resets.
C31_TimeoutGrowsGeometrically ==
    [][/\ d_pc' = "attempt" => (d_calls' = d_i' /\ d_timeout' = TimeoutOfAttempt(d_i'))
       /\ d_timeout' >= d_timeout
       /\ d_timeout' # d_timeout <=> d_hist' = Append(d_hist, "fail")]_vars

\* the fifth attempt is running, under 2073.6 ms
C31_Witness ==
    /\ d_pc = "attempt"
    /\ d_i = backoffAttemptCount - 1
    /\ d_timeout = TimeoutOfAttempt(backoffAttemptCount - 1)
    /\ d_timeout * 10 = startBackoffTimeout * 20 + 736000


\* message i is in a batch taken from the buffer: one handed to flushFn, or
\* one a Push, a Close or a timer goroutine holds and is about to hand over
InTakenBatch(i) ==
    \/ \E k \in DOMAIN b_flushes : \E j \in DOMAIN b_flushes[k].batch : b_flushes[k].batch[j] = i
    \/ \E p \in Pushers : b_ppc[p] = "spawn" /\ \E j \in DOMAIN b_pbatch[p].batch : b_pbatch[p].batch[j] = i
    \/ b_cpc = "flush" /\ \E j \in DOMAIN b_cbatch.batch : b_cbatch.batch[j] = i
    \/ \E t \in DOMAIN b_tpc : \E j \in DOMAIN b_tbatch[t].batch : b_tbatch[t].batch[j] = i

\* C32: cancelling the submission context of an envelope that is in the
\* buffer leaves the buffer unchanged, and a buffered envelope whose context
\* is cancelled keeps its position until the buffer is taken, when it is part
\* of the batch that is flushed.
C32_CancelledEnvelopeStaysBuffered ==
    [][/\ \A i \in DOMAIN b_push : BatCtxCancel(i) => b_buffer' = b_buffer
       /\ \A k \in DOMAIN b_buffer : \A i \in b_ctxDone :
             b_buffer[k] = i =>
                IF k \in DOMAIN b_buffer'
                THEN b_buffer'[k] = i
                ELSE InTakenBatch(i)']_vars

\* two envelopes are buffered, the context of the first is cancelled, and
\* an earlier cancelled envelope has been handed to flushFn
C32_Witness ==
    /\ Len(b_buffer) >= 2
    /\ b_buffer[1] \in b_ctxDone
    /\ \E k \in DOMAIN b_flushes : \E j \in DOMAIN b_flushes[k].batch :
           b_flushes[k].batch[j] \in b_ctxDone


\* C33: cancelling the context given to NewPublisher closes the publisher:
\* a SendAsync or SendSync called afterwards returns ErrClosed, and no message
\* enters the FIFO once all workers have exited.
C33_CtxCancelClosesPublisher ==
    [][/\ \A s \in Senders :
             (p_ctxDone /\ (SendSync(s) \/ \E cb \in BOOLEAN : SendAsync(s, cb)))
                => p_msgs'[Len(p_msgs')].ret = "ErrClosed"
       /\ (p_ctxDone /\ \A w \in Workers : p_wpc[w] = "exit")
             => Len(p_queue') <= Len(p_queue)]_vars


\* C34: whenever the buffer mutex is free the buffer holds at most flushSize
\* messages in size mode, also after SetFlushSize or SetMode, and in time mode
\* it never holds more than the ceiling bufferSize.
C34_BufferLengthBounded ==
    /\ (b_mode = "size" /\ b_mutex = NoTask) => Len(b_buffer) <= b_flushSize
    /\ b_mode = "time" => Len(b_buffer) <= bufferSize


\* C35: on shutdown of the wiring no broker connection is closed before
\* Publisher.Close has returned and Close of every per-partition batcher,
\* with its final flush, has returned.  (Under SpecMain the loop of main
\* never ends, no connection is ever closed and the statement has no case.)
C35_ConnectionsClosedLast ==
    \A p \in Partitions :
        w_conn[p] = "closed" => (w_pubClosed /\ \A q \in Partitions : w_batClosed[q])


\* C36: Consumer.Close always returns, whatever mode was or was not set and
\* also when the input proxy has taken a message that it has not yet handed
\* to the processing task.
C36_CloseAlwaysReturns ==
    (c_opc = "wait") ~> (c_opc # "wait")


\* C37: a message the validation function rejects is never appended to the
\* buffer nor handed to the processing task; the proxy puts it on the DLQ
\* with that error, or drops it when the DLQ is full, and goes on with its
\* select: a full DLQ never blocks the proxy.
C37_InvalidMessagesGoToDLQ ==
    [][/\ \A k \in DOMAIN c_buffer' : validMessageFn(c_buffer'[k]) = "nil"
       /\ ProxySend => validMessageFn(x_msg) = "nil"
       /\ \A k \in DOMAIN x_dlq' :
             x_dlq'[k].Err # "nil" /\ x_dlq'[k].Err = validMessageFn(x_dlq'[k].Message)
       /\ (x_pc' = "select" /\ x_n' < MaxIn) => (ENABLED ProxyRecv("bad"))'
       /\ ProxyRecv("bad") =>
             /\ x_pc' = "select"
             /\ c_buffer' = c_buffer /\ c_flush' = c_flush
             /\ IF Len(x_dlq) < dlqBufferSize
                THEN x_dlq' = Append(x_dlq, [Message |-> "bad", Err |-> "invalid"])
                ELSE x_dlq' = x_dlq /\ x_dropped']_vars

\* the DLQ is full, a further rejected message has been dropped, and the
\* proxy is back in its select
C37_Witness ==
    /\ Len(x_dlq) = dlqBufferSize
    /\ x_dropped
    /\ x_pc = "select"


\* the number of defects an event carries
Abs(n) == IF n < 0 THEN -n ELSE n
DefectCount(ev) ==
    (IF ev.PageID = "" THEN 1 ELSE 0) + (IF ev.ViewDuration < 0 THEN 1 ELSE 0)
        + (IF ev.UserAgent = "0xfffefd" THEN 1 ELSE 0)

\* C38: an event tagged valid has a non-empty page id and a view duration in
\* [1, durationMax]; an event tagged invalid carries exactly one of the three
\* defects (empty page id, negative view duration, invalid-byte user agent)
\* and the magnitude of its view duration is in [1, durationMax].
C38_EventShape ==
    [][e_event' # e_event =>
          LET ev == e_event'.Event
          IN /\ Abs(ev.ViewDuration) \in 1..e_durationMax
             /\ IF e_event'.Meta.IsInvalid
                THEN DefectCount(ev) = 1
                ELSE /\ DefectCount(ev) = 0
                     /\ ev.ViewDuration \in 1..e_durationMax]_vars

\* an invalid event with the largest negative view duration was generated
C38_Witness ==
    /\ e_event # NoEvent
    /\ e_event.Meta.IsInvalid
    /\ e_event.Event.ViewDuration = -e_durationMax
    /\ e_event.Event.PageID # ""


\* C39: a SendAsync call never blocks forever: a call that passed the closed
\* check and is at its channel send eventually returns, also when Close or the
\* cancellation of the workers' context happens meanwhile.
C39_SendAsyncAlwaysReturns ==
    \A s \in Senders : (p_spc[s] = "enqueue") ~> (p_spc[s] # "enqueue")


\* the ticker tasks that have not returned
AliveTickers == {t \in DOMAIN b_tpc : b_tpc[t] # "exit"}

\* C40: across any sequence of SetMode calls at most one ticker task exists,
\* once the batcher is in size mode and the owner's call has returned no
\* ticker task is left, and no ticker takes its timer case in size mode.
C40_OneTickerNoneInSizeMode ==
    [][/\ Cardinality(AliveTickers') <= 1
       /\ (b_mode' = "size" /\ b_cpc' = "idle" /\ ~b_panic') => AliveTickers' = {}
       /\ \A t \in DOMAIN b_tpc :
             ~(b_mode = "size" /\ b_cpc = "idle" /\ TickerTick(t))]_vars

====
